---------------------------- MODULE Spec2Model ----------------------------
(***************************************************************************)
(* Model of the quantitative scoring engine of ai-portfolio-analyst        *)
(* (src/lib/quantModel.ts): computeQuantAnalysis maps a MarketSnapshot to  *)
(* a MarketAnalysis.                                                       *)
(*                                                                         *)
(* Numbers.  A JavaScript value held by a numeric snapshot field is one of *)
(* null/undefined ("absent"), NaN, +Infinity, -Infinity or a finite number.*)
(* A finite number is modelled as a normalised rational n/d (d > 0).  Band *)
(* arithmetic is carried out over the rationals.  The two composite sums   *)
(* multiply integers by the binary64 constants 0.25, 0.15, 0.10, 0.20 and  *)
(* 0.30 and feed Math.round; there the binary64 rounding of every product  *)
(* and partial sum is modelled bit for bit (section "binary64").           *)
(***************************************************************************)
EXTENDS Integers, Sequences, FiniteSets, TLC

----------------------------------------------------------------------------
(* JavaScript values of a numeric field *)

Absent == [k |-> "absent", n |-> 0, d |-> 1]
NaN    == [k |-> "nan",    n |-> 0, d |-> 1]
PosInf == [k |-> "inf",    n |-> 1, d |-> 1]
NegInf == [k |-> "inf",    n |-> -1, d |-> 1]

RECURSIVE GCD(_, _)
GCD(a, b) == IF b = 0 THEN a ELSE GCD(b, a % b)

AbsInt(x) == IF x < 0 THEN -x ELSE x

(* the finite number n/d, d # 0, in lowest terms with a positive denominator *)
R(n, d) ==
    LET s == IF d < 0 THEN -1 ELSE 1
        g == GCD(AbsInt(n), AbsInt(d))
    IN  [k |-> "fin", n |-> (s * n) \div g, d |-> (s * d) \div g]

Num(n) == [k |-> "fin", n |-> n, d |-> 1]

IsAbsent(x) == x.k = "absent"
IsNaN(x)    == x.k = "nan"
IsInf(x)    == x.k = "inf"
IsFinite(x) == x.k = "fin"
IsInteger(x) == x.k = "fin" /\ x.d = 1

(* sign of a non-NaN number: -1, 0, 1 *)
Sgn(x) == IF x.n > 0 THEN 1 ELSE IF x.n < 0 THEN -1 ELSE 0

(* x < y on numbers; false as soon as one side is NaN *)
Lt(x, y) ==
    IF IsNaN(x) \/ IsNaN(y) THEN FALSE
    ELSE IF IsInf(x) /\ IsInf(y) THEN x.n < y.n
    ELSE IF IsInf(x) THEN x.n < 0
    ELSE IF IsInf(y) THEN y.n > 0
    ELSE x.n * y.d < y.n * x.d

NumEq(x, y) ==
    IF IsNaN(x) \/ IsNaN(y) THEN FALSE
    ELSE x = y

Le(x, y) == Lt(x, y) \/ NumEq(x, y)
Gt(x, y) == Lt(y, x)
Ge(x, y) == Le(y, x)

Neg(x) ==
    IF IsNaN(x) THEN NaN
    ELSE IF IsInf(x) THEN [x EXCEPT !.n = -x.n]
    ELSE R(-x.n, x.d)

Add(x, y) ==
    IF IsNaN(x) \/ IsNaN(y) THEN NaN
    ELSE IF IsInf(x) /\ IsInf(y) THEN (IF x.n = y.n THEN x ELSE NaN)
    ELSE IF IsInf(x) THEN x
    ELSE IF IsInf(y) THEN y
    ELSE R(x.n * y.d + y.n * x.d, x.d * y.d)

Sub(x, y) == Add(x, Neg(y))

Mul(x, y) ==
    IF IsNaN(x) \/ IsNaN(y) THEN NaN
    ELSE IF IsInf(x) \/ IsInf(y)
         THEN (IF Sgn(x) * Sgn(y) = 0 THEN NaN
               ELSE IF Sgn(x) * Sgn(y) > 0 THEN PosInf ELSE NegInf)
    ELSE R(x.n * y.n, x.d * y.d)

(* x / y; a zero divisor is taken as +0 *)
Div(x, y) ==
    IF IsNaN(x) \/ IsNaN(y) THEN NaN
    ELSE IF IsInf(x) /\ IsInf(y) THEN NaN
    ELSE IF IsInf(y) THEN Num(0)
    ELSE IF IsInf(x) THEN (IF Sgn(x) * Sgn(y) < 0 THEN NegInf ELSE PosInf)
    ELSE IF y.n = 0
         THEN (IF x.n = 0 THEN NaN ELSE IF x.n > 0 THEN PosInf ELSE NegInf)
    ELSE R(x.n * y.d, x.d * y.n)

MathAbs(x) ==
    IF IsNaN(x) THEN NaN
    ELSE IF IsInf(x) THEN PosInf
    ELSE R(AbsInt(x.n), x.d)

MathMax(x, y) == IF IsNaN(x) \/ IsNaN(y) THEN NaN ELSE IF Lt(x, y) THEN y ELSE x
MathMin(x, y) == IF IsNaN(x) \/ IsNaN(y) THEN NaN ELSE IF Lt(y, x) THEN y ELSE x

(* Math.round: nearest integer, a tie goes to the larger one *)
MathRound(x) ==
    IF ~IsFinite(x) THEN x
    ELSE Num((2 * x.n + x.d) \div (2 * x.d))

----------------------------------------------------------------------------
(* binary64.  A non-negative double x < 2048 is held as the integer        *)
(* x * 2^56 written in five limbs of 14 bits, least significant first:     *)
(* <<l0, l1, l2, l3, l4>> stands for (l0 + l1*2^14 + l2*2^28 + l3*2^42 +   *)
(* l4*2^56) / 2^56, so l4 is the integer part.  Every double in            *)
(* [2^-4, 2048) is such an integer; the result of + and * is the exact     *)
(* result rounded to 53 significant bits, ties to even (IEEE 754).         *)

Limb == 2^14

(* the literals of the composite sums as binary64 values *)
Dbl025 == <<0, 0, 0, 4096, 0>>             \* 0.25 exactly
Dbl015 == <<9830, 6553, 9830, 2457, 0>>    \* 0.1499999999999999944488848768742172978818416595458984375
Dbl010 == <<6554, 9830, 6553, 1638, 0>>    \* 0.1000000000000000055511151231257827021181583404541015625
Dbl020 == <<13108, 3276, 13107, 3276, 0>>  \* 0.200000000000000011102230246251565404236316680908203125
Dbl030 == <<3276, 13107, 3276, 4915, 0>>   \* 0.299999999999999988897769753748434595763683319091796875

(* carry propagation *)
FNorm(L) ==
    LET a2 == L[2] + (L[1] \div Limb)
        a3 == L[3] + (a2 \div Limb)
        a4 == L[4] + (a3 \div Limb)
        a5 == L[5] + (a4 \div Limb)
    IN  <<L[1] % Limb, a2 % Limb, a3 % Limb, a4 % Limb, a5>>

RECURSIVE HighBit(_)
HighBit(n) == IF n < 2 THEN 1 ELSE 2 * HighBit(n \div 2)

(* the spacing of the doubles around L, in units of 2^-56 *)
FUlp(L) ==
    IF L[5] >= 1 THEN 16 * HighBit(L[5])
    ELSE IF L[4] >= 8192 THEN 8
    ELSE IF L[4] >= 4096 THEN 4
    ELSE IF L[4] >= 2048 THEN 2
    ELSE 1

(* round to nearest double, ties to even *)
FRound(L) ==
    LET q   == FUlp(L)
        rem == L[1] % q
        odd == IF q < Limb THEN (L[1] \div q) % 2 = 1 ELSE L[2] % 2 = 1
        up  == 2 * rem > q \/ (2 * rem = q /\ odd)
    IN  FNorm(<<L[1] - rem + (IF up THEN q ELSE 0), L[2], L[3], L[4], L[5]>>)

FAdd(X, Y) == FRound(FNorm(<<X[1] + Y[1], X[2] + Y[2], X[3] + Y[3], X[4] + Y[4], X[5] + Y[5]>>))

(* integer s >= 0 times the double X *)
FMul(s, X) == FRound(FNorm(<<s * X[1], s * X[2], s * X[3], s * X[4], s * X[5]>>))

(* Math.round of a non-negative double *)
FMathRound(L) == L[5] + (IF 2 * L[4] >= Limb THEN 1 ELSE 0)

----------------------------------------------------------------------------
(* helpers of quantModel.ts *)

clamp(v, min, max) == MathMin(max, MathMax(min, v))

safeNum(n) == IF IsFinite(n) THEN n ELSE Absent

(* typeof s === "number" && !Number.isNaN(s) *)
IsScore(s) == ~IsAbsent(s) /\ ~IsNaN(s)

RECURSIVE SumSeq(_)
SumSeq(vals) == IF vals = <<>> THEN Num(0) ELSE Add(SumSeq(SubSeq(vals, 1, Len(vals) - 1)), vals[Len(vals)])

(* avgScores with the rounding forgotten *)
avgScoresUnrounded(scores) ==
    LET vals == SelectSeq(scores, IsScore)
    IN  IF Len(vals) = 0 THEN Num(50)
        ELSE Div(SumSeq(vals), Num(Len(vals)))

(* avgScores with 0 as the score of "no data" *)
avgScoresZeroDefault(scores) ==
    LET vals == SelectSeq(scores, IsScore)
    IN  IF Len(vals) = 0 THEN Num(0)
        ELSE MathRound(Div(SumSeq(vals), Num(Len(vals))))

(* avgScores filtering null only, so that NaN enters the sum *)
avgScoresKeepNaN(scores) ==
    LET vals == SelectSeq(scores, LAMBDA s : ~IsAbsent(s))
    IN  IF Len(vals) = 0 THEN Num(50)
        ELSE MathRound(Div(SumSeq(vals), Num(Len(vals))))

avgScores(scores) ==
    LET vals == SelectSeq(scores, IsScore)
    IN  IF Len(vals) = 0 THEN Num(50)
        ELSE MathRound(Div(SumSeq(vals), Num(Len(vals))))

(* avgScoresOrNull with the rounding forgotten *)
avgScoresOrNullUnrounded(scores) ==
    LET vals == SelectSeq(scores, IsScore)
    IN  IF Len(vals) = 0 THEN Absent
        ELSE Div(SumSeq(vals), Num(Len(vals)))

avgScoresOrNull(scores) ==
    LET vals == SelectSeq(scores, IsScore)
    IN  IF Len(vals) = 0 THEN Absent
        ELSE MathRound(Div(SumSeq(vals), Num(Len(vals))))

(* scoreFromBand with the saturation at max forgotten *)
scoreFromBandNoCeiling(value, min, max) ==
    IF IsAbsent(value) THEN Num(50)
    ELSE IF Le(value, min) THEN Num(10)
    ELSE LET t == Div(Sub(value, min), Sub(max, min))
         IN  Add(Num(10), Mul(t, Sub(Num(95), Num(10))))

scoreFromBand(value, min, max) ==
    IF IsAbsent(value) THEN Num(50)
    ELSE IF Le(value, min) THEN Num(10)
    ELSE IF Ge(value, max) THEN Num(95)
    ELSE LET t == Div(Sub(value, min), Sub(max, min))
         IN  Add(Num(10), Mul(t, Sub(Num(95), Num(10))))

(* scoreFromBandOrNull mapping the band onto the whole scale [0,100] *)
scoreFromBandOrNullFullScale(value, min, max) ==
    IF IsAbsent(value) THEN Absent
    ELSE IF Le(value, min) THEN Num(0)
    ELSE IF Ge(value, max) THEN Num(100)
    ELSE LET t == Div(Sub(value, min), Sub(max, min))
         IN  Mul(t, Num(100))

scoreFromBandOrNull(value, min, max) ==
    IF IsAbsent(value) THEN Absent
    ELSE IF Le(value, min) THEN Num(10)
    ELSE IF Ge(value, max) THEN Num(95)
    ELSE LET t == Div(Sub(value, min), Sub(max, min))
         IN  Add(Num(10), Mul(t, Sub(Num(95), Num(10))))

(* scoreFromPeOrNull with the slope of the second segment used in the third *)
scoreFromPeOrNullSteep(peRaw) ==
    LET pe == safeNum(peRaw)
    IN  IF IsAbsent(pe) THEN Absent
        ELSE IF Le(pe, Num(0)) THEN Num(20)
        ELSE IF Ge(pe, Num(5)) /\ Le(pe, Num(15))
             THEN MathRound(Sub(Num(95), Mul(Div(Sub(pe, Num(5)), Num(10)), Num(15))))
        ELSE IF Gt(pe, Num(15)) /\ Le(pe, Num(30))
             THEN MathRound(Sub(Num(80), Mul(Div(Sub(pe, Num(15)), Num(15)), Num(25))))
        ELSE IF Gt(pe, Num(30)) /\ Le(pe, Num(60))
             THEN MathRound(Sub(Num(55), Mul(Div(Sub(pe, Num(30)), Num(30)), Num(25))))
        ELSE Num(35)

scoreFromPeOrNull(peRaw) ==
    LET pe == safeNum(peRaw)
    IN  IF IsAbsent(pe) THEN Absent
        ELSE IF Le(pe, Num(0)) THEN Num(20)
        ELSE IF Ge(pe, Num(5)) /\ Le(pe, Num(15))
             THEN MathRound(Sub(Num(95), Mul(Div(Sub(pe, Num(5)), Num(10)), Num(15))))
        ELSE IF Gt(pe, Num(15)) /\ Le(pe, Num(30))
             THEN MathRound(Sub(Num(80), Mul(Div(Sub(pe, Num(15)), Num(15)), Num(25))))
        ELSE IF Gt(pe, Num(30)) /\ Le(pe, Num(60))
             THEN MathRound(Sub(Num(55), Mul(Div(Sub(pe, Num(30)), Num(30)), Num(15))))
        ELSE Num(35)

----------------------------------------------------------------------------
(* factor scores *)

(* scoreValue with the neutral band variant, an absent ratio counting as 50 *)
scoreValueNeutral(s) ==
    LET peScore  == scoreFromPeOrNull(s.peRatio)
        psScore  == scoreFromBand(s.priceToSales, Num(1), Num(12))
        pbScore  == scoreFromBand(s.priceToBook, R(8, 10), Num(6))
        pegScore == scoreFromBand(s.pegRatio, R(5, 10), Num(3))
    IN  avgScores(<<peScore, psScore, pbScore, pegScore>>)

scoreValue(s) ==
    LET peScore  == scoreFromPeOrNull(s.peRatio)
        psScore  == scoreFromBandOrNull(s.priceToSales, Num(1), Num(12))
        pbScore  == scoreFromBandOrNull(s.priceToBook, R(8, 10), Num(6))
        pegScore == scoreFromBandOrNull(s.pegRatio, R(5, 10), Num(3))
    IN  avgScores(<<peScore, psScore, pbScore, pegScore>>)

(* scoreGrowth with an absent price-based score entered as 50 next to the  *)
(* fundamental one *)
scoreGrowthNeutralPrice(s) ==
    LET revFundScore == scoreFromBandOrNull(s.revenueGrowth, Num(0), R(35, 100))
        epsFundScore == scoreFromBandOrNull(s.epsGrowth, Num(0), R(45, 100))
        fundamentalGrowthScore == avgScoresOrNull(<<revFundScore, epsFundScore>>)
        priceGrowthScore ==
            IF ~IsAbsent(s.fiftyTwoWeekChangePct)
            THEN scoreFromBandOrNull(s.fiftyTwoWeekChangePct, Num(-40), Num(150))
            ELSE IF /\ ~IsAbsent(s.price)
                    /\ ~IsAbsent(s.fiftyTwoWeekLow)
                    /\ ~IsAbsent(s.fiftyTwoWeekHigh)
                    /\ Gt(s.fiftyTwoWeekHigh, s.fiftyTwoWeekLow)
            THEN LET pos == Div(Sub(s.price, s.fiftyTwoWeekLow),
                                Sub(s.fiftyTwoWeekHigh, s.fiftyTwoWeekLow))
                 IN  scoreFromBandOrNull(pos, Num(0), Num(1))
            ELSE Absent
    IN  avgScores(IF ~IsAbsent(fundamentalGrowthScore)
                  THEN <<fundamentalGrowthScore,
                         IF IsAbsent(priceGrowthScore) THEN Num(50) ELSE priceGrowthScore>>
                  ELSE <<priceGrowthScore>>)

(* scoreGrowth with the test high > low forgotten *)
scoreGrowthAnyRange(s) ==
    LET revFundScore == scoreFromBandOrNull(s.revenueGrowth, Num(0), R(35, 100))
        epsFundScore == scoreFromBandOrNull(s.epsGrowth, Num(0), R(45, 100))
        fundamentalGrowthScore == avgScoresOrNull(<<revFundScore, epsFundScore>>)
        priceGrowthScore ==
            IF ~IsAbsent(s.fiftyTwoWeekChangePct)
            THEN scoreFromBandOrNull(s.fiftyTwoWeekChangePct, Num(-40), Num(150))
            ELSE IF /\ ~IsAbsent(s.price)
                    /\ ~IsAbsent(s.fiftyTwoWeekLow)
                    /\ ~IsAbsent(s.fiftyTwoWeekHigh)
            THEN LET pos == Div(Sub(s.price, s.fiftyTwoWeekLow),
                                Sub(s.fiftyTwoWeekHigh, s.fiftyTwoWeekLow))
                 IN  scoreFromBandOrNull(pos, Num(0), Num(1))
            ELSE Absent
    IN  avgScores(IF ~IsAbsent(fundamentalGrowthScore)
                  THEN <<fundamentalGrowthScore, priceGrowthScore>>
                  ELSE <<priceGrowthScore>>)

(* scoreGrowth with the price-based score used only when there are no      *)
(* fundamentals *)
scoreGrowthFundamentalsFirst(s) ==
    LET revFundScore == scoreFromBandOrNull(s.revenueGrowth, Num(0), R(35, 100))
        epsFundScore == scoreFromBandOrNull(s.epsGrowth, Num(0), R(45, 100))
        fundamentalGrowthScore == avgScoresOrNull(<<revFundScore, epsFundScore>>)
        priceGrowthScore ==
            IF ~IsAbsent(s.fiftyTwoWeekChangePct)
            THEN scoreFromBandOrNull(s.fiftyTwoWeekChangePct, Num(-40), Num(150))
            ELSE IF /\ ~IsAbsent(s.price)
                    /\ ~IsAbsent(s.fiftyTwoWeekLow)
                    /\ ~IsAbsent(s.fiftyTwoWeekHigh)
                    /\ Gt(s.fiftyTwoWeekHigh, s.fiftyTwoWeekLow)
            THEN LET pos == Div(Sub(s.price, s.fiftyTwoWeekLow),
                                Sub(s.fiftyTwoWeekHigh, s.fiftyTwoWeekLow))
                 IN  scoreFromBandOrNull(pos, Num(0), Num(1))
            ELSE Absent
    IN  avgScores(IF ~IsAbsent(fundamentalGrowthScore)
                  THEN <<fundamentalGrowthScore>>
                  ELSE <<priceGrowthScore>>)

scoreGrowth(s) ==
    LET revFundScore == scoreFromBandOrNull(s.revenueGrowth, Num(0), R(35, 100))
        epsFundScore == scoreFromBandOrNull(s.epsGrowth, Num(0), R(45, 100))
        fundamentalGrowthScore == avgScoresOrNull(<<revFundScore, epsFundScore>>)
        priceGrowthScore ==
            IF ~IsAbsent(s.fiftyTwoWeekChangePct)
            THEN scoreFromBandOrNull(s.fiftyTwoWeekChangePct, Num(-40), Num(150))
            ELSE IF /\ ~IsAbsent(s.price)
                    /\ ~IsAbsent(s.fiftyTwoWeekLow)
                    /\ ~IsAbsent(s.fiftyTwoWeekHigh)
                    /\ Gt(s.fiftyTwoWeekHigh, s.fiftyTwoWeekLow)
            THEN LET pos == Div(Sub(s.price, s.fiftyTwoWeekLow),
                                Sub(s.fiftyTwoWeekHigh, s.fiftyTwoWeekLow))
                 IN  scoreFromBandOrNull(pos, Num(0), Num(1))
            ELSE Absent
    IN  avgScores(IF ~IsAbsent(fundamentalGrowthScore)
                  THEN <<fundamentalGrowthScore, priceGrowthScore>>
                  ELSE <<priceGrowthScore>>)

scoreQuality(s) ==
    LET marginScore == scoreFromBandOrNull(s.profitMargin, R(5, 100), R(35, 100))
        roeScore    == scoreFromBandOrNull(s.roe, R(8, 100), R(35, 100))
    IN  avgScores(<<marginScore, roeScore>>)

(* scoreMomentum with the signed distance from the high banded as it is *)
scoreMomentumSigned(s) ==
    LET dayScore  == scoreFromBandOrNull(s.change1dPct, Num(-5), Num(5))
        yearScore == scoreFromBandOrNull(s.fiftyTwoWeekChangePct, Num(-40), Num(150))
        distFromHighScore ==
            scoreFromBandOrNull(
                IF ~IsAbsent(s.changeFrom52wHighPct)
                THEN s.changeFrom52wHighPct
                ELSE Absent,
                Num(-60), Num(0))
    IN  avgScores(<<dayScore, yearScore, distFromHighScore>>)

scoreMomentum(s) ==
    LET dayScore  == scoreFromBandOrNull(s.change1dPct, Num(-5), Num(5))
        yearScore == scoreFromBandOrNull(s.fiftyTwoWeekChangePct, Num(-40), Num(150))
        distFromHighScore ==
            scoreFromBandOrNull(
                IF ~IsAbsent(s.changeFrom52wHighPct)
                THEN Neg(MathAbs(s.changeFrom52wHighPct))
                ELSE Absent,
                Num(-60), Num(0))
    IN  avgScores(<<dayScore, yearScore, distFromHighScore>>)

(* marketCap is held in millions (1000 stands for 10^9), being too large   *)
(* for a machine integer otherwise; Math.log10 adds the 6 back.  log10 of  *)
(* the mantissas 2 and 5 is taken to five decimals; other mantissas are    *)
(* outside the operator's domain.                                          *)
RECURSIVE Log10(_)
Log10(x) ==
    IF Ge(x, Num(10)) THEN Add(Num(1), Log10(Div(x, Num(10))))
    ELSE IF Lt(x, Num(1)) THEN Add(Num(-1), Log10(Mul(x, Num(10))))
    ELSE CASE x = Num(1) -> Num(0)
           [] x = Num(2) -> R(30103, 100000)
           [] x = Num(5) -> R(69897, 100000)

MathLog10Cap(cap) ==
    IF IsNaN(cap) THEN NaN
    ELSE IF IsInf(cap) THEN (IF cap.n > 0 THEN PosInf ELSE NaN)
    ELSE IF cap.n < 0 THEN NaN
    ELSE IF cap.n = 0 THEN NegInf
    ELSE Add(Num(6), Log10(cap))

(* a JavaScript number used as a condition: null, NaN and 0 are falsy *)
Truthy(x) == ~IsAbsent(x) /\ ~IsNaN(x) /\ x # Num(0)

(* scoreRisk with the size term computed for every non-null market cap *)
scoreRiskAnyCap(s) ==
    LET betaScore == scoreFromBandOrNull(s.beta, R(8, 10), R(18, 10))
        sizeScore ==
            IF ~IsAbsent(s.marketCap)
            THEN scoreFromBandOrNull(MathLog10Cap(s.marketCap), Num(9), Num(12))
            ELSE Absent
    IN  avgScores(<<betaScore, sizeScore>>)

scoreRisk(s) ==
    LET betaScore == scoreFromBandOrNull(s.beta, R(8, 10), R(18, 10))
        sizeScore ==
            IF Truthy(s.marketCap) /\ Gt(s.marketCap, Num(0))
            THEN scoreFromBandOrNull(MathLog10Cap(s.marketCap), Num(9), Num(12))
            ELSE Absent
    IN  avgScores(<<betaScore, sizeScore>>)

----------------------------------------------------------------------------
(* quant -> app scores *)

IsNatScore(x) == IsInteger(x) /\ x.n >= 0

(* Math.round(value*0.25 + quality*0.25 + growth*0.25 + risk*0.15 +        *)
(* momentum*0.10), summed left to right in binary64.  Operands that are    *)
(* not non-negative integers take the sum over the extended rationals.     *)
(* balanceScoreOf with most of the weight moved onto the risk score *)
balanceScoreOfRiskHeavy(valueScore, qualityScore, growthScore, riskScore, momentumScore) ==
    MathRound(
        Add(Add(Add(Add(Mul(valueScore, R(10, 100)),
                        Mul(qualityScore, R(10, 100))),
                    Mul(growthScore, R(10, 100))),
                Mul(riskScore, R(60, 100))),
            Mul(momentumScore, R(10, 100))))

balanceScoreOf(valueScore, qualityScore, growthScore, riskScore, momentumScore) ==
    IF /\ IsNatScore(valueScore) /\ IsNatScore(qualityScore) /\ IsNatScore(growthScore)
       /\ IsNatScore(riskScore) /\ IsNatScore(momentumScore)
    THEN Num(FMathRound(
             FAdd(FAdd(FAdd(FAdd(FMul(valueScore.n, Dbl025),
                                 FMul(qualityScore.n, Dbl025)),
                            FMul(growthScore.n, Dbl025)),
                       FMul(riskScore.n, Dbl015)),
                  FMul(momentumScore.n, Dbl010))))
    ELSE MathRound(
             Add(Add(Add(Add(Mul(valueScore, R(25, 100)),
                             Mul(qualityScore, R(25, 100))),
                         Mul(growthScore, R(25, 100))),
                     Mul(riskScore, R(15, 100))),
                 Mul(momentumScore, R(10, 100))))

(* Math.round(value*0.20 + quality*0.25 + growth*0.30 + momentum*0.15 +    *)
(* risk*0.10) *)
healthScoreOf(valueScore, qualityScore, growthScore, momentumScore, riskScore) ==
    IF /\ IsNatScore(valueScore) /\ IsNatScore(qualityScore) /\ IsNatScore(growthScore)
       /\ IsNatScore(riskScore) /\ IsNatScore(momentumScore)
    THEN Num(FMathRound(
             FAdd(FAdd(FAdd(FAdd(FMul(valueScore.n, Dbl020),
                                 FMul(qualityScore.n, Dbl025)),
                            FMul(growthScore.n, Dbl030)),
                       FMul(momentumScore.n, Dbl015)),
                  FMul(riskScore.n, Dbl010))))
    ELSE MathRound(
             Add(Add(Add(Add(Mul(valueScore, R(20, 100)),
                             Mul(qualityScore, R(25, 100))),
                         Mul(growthScore, R(30, 100))),
                     Mul(momentumScore, R(15, 100))),
                 Mul(riskScore, R(10, 100))))

(* ratingOf with the BUY threshold exclusive *)
ratingOfExclusive(healthScore, balanceScore) ==
    IF Gt(healthScore, Num(72)) /\ Ge(balanceScore, Num(60)) THEN "BUY"
    ELSE IF Le(healthScore, Num(40)) \/ Le(balanceScore, Num(40)) THEN "SELL"
    ELSE "HOLD"

ratingOf(healthScore, balanceScore) ==
    IF Ge(healthScore, Num(72)) /\ Ge(balanceScore, Num(60)) THEN "BUY"
    ELSE IF Le(healthScore, Num(40)) \/ Le(balanceScore, Num(40)) THEN "SELL"
    ELSE "HOLD"

(* convictionOf with the absolute value forgotten *)
convictionOfSigned(healthScore) ==
    LET distanceFromNeutral == Sub(healthScore, Num(50))
    IN  clamp(Add(Num(35), distanceFromNeutral), Num(10), Num(90))

convictionOf(healthScore) ==
    LET distanceFromNeutral == MathAbs(Sub(healthScore, Num(50)))
    IN  clamp(Add(Num(35), distanceFromNeutral), Num(10), Num(90))

CaveatProfitability == "Profitability metrics (margin/ROE) are partially missing or estimated"
CaveatGrowth        == "Growth fundamentals are incomplete"
CaveatTrailing      == "Scores are based on trailing data"

(* keyRisksOf with each caveat pushed only when both of its fields are     *)
(* missing *)
keyRisksOfBothMissing(snapshot) ==
    LET r1 == IF IsAbsent(snapshot.profitMargin) /\ IsAbsent(snapshot.roe)
              THEN <<CaveatProfitability>> ELSE <<>>
        r2 == IF IsAbsent(snapshot.revenueGrowth) /\ IsAbsent(snapshot.epsGrowth)
              THEN Append(r1, CaveatGrowth) ELSE r1
    IN  IF Len(r2) = 0 THEN Append(r2, CaveatTrailing) ELSE r2

(* keyRisksOf with the second check chained as an else-branch of the first *)
keyRisksOfElseIf(snapshot) ==
    IF IsAbsent(snapshot.profitMargin) \/ IsAbsent(snapshot.roe)
    THEN <<CaveatProfitability>>
    ELSE IF IsAbsent(snapshot.revenueGrowth) \/ IsAbsent(snapshot.epsGrowth)
    THEN <<CaveatGrowth>>
    ELSE <<CaveatTrailing>>

keyRisksOf(snapshot) ==
    LET r1 == IF IsAbsent(snapshot.profitMargin) \/ IsAbsent(snapshot.roe)
              THEN <<CaveatProfitability>> ELSE <<>>
        r2 == IF IsAbsent(snapshot.revenueGrowth) \/ IsAbsent(snapshot.epsGrowth)
              THEN Append(r1, CaveatGrowth) ELSE r1
    IN  IF Len(r2) = 0 THEN Append(r2, CaveatTrailing) ELSE r2

(* a null companyName *)
NullStr == "<null>"

(* computeQuantAnalysis with the risk score published as toneScore *)
computeQuantAnalysisRiskAsTone(snapshot) ==
    LET valueScore    == scoreValue(snapshot)
        growthScore   == scoreGrowth(snapshot)
        qualityScore  == scoreQuality(snapshot)
        momentumScore == scoreMomentum(snapshot)
        riskScore     == scoreRisk(snapshot)
        toneScore          == riskScore
        valuationScore     == valueScore
        profitabilityScore == qualityScore
        balanceScore == balanceScoreOf(valueScore, qualityScore, growthScore,
                                       riskScore, momentumScore)
        healthScore  == healthScoreOf(valueScore, qualityScore, growthScore,
                                      momentumScore, riskScore)
        rating     == ratingOf(healthScore, balanceScore)
        conviction == convictionOf(healthScore)
        name == IF snapshot.companyName # NullStr
                THEN snapshot.companyName ELSE snapshot.ticker
    IN  [rating             |-> rating,
         conviction         |-> conviction,
         toneScore          |-> toneScore,
         growthScore        |-> growthScore,
         profitabilityScore |-> profitabilityScore,
         valuationScore     |-> valuationScore,
         balanceScore       |-> balanceScore,
         healthScore        |-> healthScore,
         summary            |-> <<name, snapshot.ticker>>,
         keyRisks           |-> keyRisksOf(snapshot),
         thesis             |-> <<healthScore, growthScore, profitabilityScore,
                                  valuationScore, riskScore, rating, conviction>>]

(* the summary and the thesis are templates; they are held as the tuple of *)
(* the values interpolated into them, in order *)
computeQuantAnalysis(snapshot) ==
    LET valueScore    == scoreValue(snapshot)
        growthScore   == scoreGrowth(snapshot)
        qualityScore  == scoreQuality(snapshot)
        momentumScore == scoreMomentum(snapshot)
        riskScore     == scoreRisk(snapshot)
        toneScore          == momentumScore
        valuationScore     == valueScore
        profitabilityScore == qualityScore
        balanceScore == balanceScoreOf(valueScore, qualityScore, growthScore,
                                       riskScore, momentumScore)
        healthScore  == healthScoreOf(valueScore, qualityScore, growthScore,
                                      momentumScore, riskScore)
        rating     == ratingOf(healthScore, balanceScore)
        conviction == convictionOf(healthScore)
        name == IF snapshot.companyName # NullStr
                THEN snapshot.companyName ELSE snapshot.ticker
    IN  [rating             |-> rating,
         conviction         |-> conviction,
         toneScore          |-> toneScore,
         growthScore        |-> growthScore,
         profitabilityScore |-> profitabilityScore,
         valuationScore     |-> valuationScore,
         balanceScore       |-> balanceScore,
         healthScore        |-> healthScore,
         summary            |-> <<name, snapshot.ticker>>,
         keyRisks           |-> keyRisksOf(snapshot),
         thesis             |-> <<healthScore, growthScore, profitabilityScore,
                                  valuationScore, riskScore, rating, conviction>>]

(* the callers' test for an analysis that carries no information *)
allFifty(a) ==
    /\ a.toneScore = Num(50)
    /\ a.growthScore = Num(50)
    /\ a.profitabilityScore = Num(50)
    /\ a.valuationScore = Num(50)
    /\ a.balanceScore = Num(50)
    /\ a.healthScore = Num(50)

(* computeQuantAnalysis with the display name written back into the       *)
(* snapshot (companyName ??= ticker) *)
CallFillingName(snapshot) ==
    [returned |-> computeQuantAnalysis(snapshot),
     argument |-> [snapshot EXCEPT !.companyName =
                       IF snapshot.companyName # NullStr
                       THEN snapshot.companyName ELSE snapshot.ticker]]

(* what a call leaves behind: the value returned and the object that was   *)
(* passed, which no statement of the function assigns to *)
Call(snapshot) ==
    [returned |-> computeQuantAnalysis(snapshot),
     argument |-> snapshot]

----------------------------------------------------------------------------
(* state *)

VARIABLES
    pc,         \* "call": the call is about to be made; "returned": it has returned
    snapshot,   \* the MarketSnapshot handed to computeQuantAnalysis
    analysis,   \* the MarketAnalysis it returned
    args,       \* the arguments of a direct call of a helper
    result,     \* what the helper returned
    calls,      \* the calls of computeQuantAnalysis completed so far, in order
    feed,       \* what the two data providers answer to fetchYahooQuote
    stocks,        \* the rows of the Stock table
    toneAnalyses,  \* the rows of the ToneAnalysis table, in order of creation
    request,       \* the HTTP request a route handler is serving
    response,      \* the HTTP response it returned
    effects,       \* the provider fetches and database calls it made, in order
    locals         \* the handler's local variables

routeVars == <<stocks, toneAnalyses, request, response, effects, locals>>

vars == <<pc, snapshot, analysis, args, result, calls, feed, routeVars>>

(* a value of a provider's JSON answer: undefined (key missing), null, a   *)
(* number, a string, or an object { raw: v }                               *)
JUndefined == [t |-> "undefined", s |-> "", v |-> Absent]
JNull      == [t |-> "null",      s |-> "", v |-> Absent]
JNum(x)    == [t |-> "number",    s |-> "", v |-> x]
JStr(text) == [t |-> "string",    s |-> text, v |-> Absent]
JRaw(x)    == [t |-> "object",    s |-> "", v |-> x]

(* the quote node of the Yahoo answer, the financialData object of the     *)
(* financial-data answer and the first row of the FMP ratios-ttm answer;   *)
(* ok is false when the request failed or the answer had no such object    *)
NoQuote ==
    [ok |-> FALSE, symbol |-> NullStr, longName |-> NullStr, shortName |-> NullStr,
     regularMarketPrice |-> JUndefined, regularMarketPreviousClose |-> JUndefined,
     regularMarketChangePercent |-> JUndefined,
     fiftyTwoWeekHigh |-> JUndefined, fiftyTwoWeekLow |-> JUndefined,
     fiftyTwoWeekChange |-> JUndefined, marketCap |-> JUndefined,
     trailingPE |-> JUndefined, forwardPE |-> JUndefined,
     priceToSalesTrailing12Months |-> JUndefined, priceToBook |-> JUndefined,
     pegRatio |-> JUndefined, beta |-> JUndefined]

NoFinancialData ==
    [ok |-> FALSE, profitMargins |-> JUndefined, returnOnEquity |-> JUndefined,
     revenueGrowth |-> JUndefined, earningsGrowth |-> JUndefined,
     pegRatio |-> JUndefined, priceToSalesTrailing12Months |-> JUndefined,
     priceToBook |-> JUndefined]

NoRow ==
    [ok |-> FALSE, netProfitMarginTTM |-> JUndefined, roeTTM |-> JUndefined,
     revenueGrowthTTM |-> JUndefined, epsGrowthTTM |-> JUndefined]

NoFeed == [symbol |-> "", quote |-> NoQuote, fd |-> NoFinancialData, row |-> NoRow]

(* the numeric fields computeQuantAnalysis reads *)
NumFields ==
    {"peRatio", "priceToSales", "priceToBook", "pegRatio",
     "revenueGrowth", "epsGrowth", "fiftyTwoWeekChangePct",
     "price", "fiftyTwoWeekLow", "fiftyTwoWeekHigh",
     "profitMargin", "roe",
     "change1dPct", "changeFrom52wHighPct",
     "beta", "marketCap"}

AllAbsent ==
    [f \in NumFields |-> Absent] @@ [ticker |-> "ACME", companyName |-> NullStr]

NoAnalysis == [rating |-> "none"]
NoArgs     == [fn |-> "none", x |-> Absent, y |-> Absent, min |-> Absent, max |-> Absent,
               scores |-> <<>>]
NoResult   == [x |-> Absent, y |-> Absent, xOrNull |-> Absent, yOrNull |-> Absent]

NoRequest  == [route |-> "none"]
NoResponse == [status |-> 0]
NoLocals   == [ticker |-> ""]

(* no route handler is running and the database is empty *)
RoutesIdle ==
    /\ stocks = {}
    /\ toneAnalyses = <<>>
    /\ request = NoRequest
    /\ response = NoResponse
    /\ effects = <<>>
    /\ locals = NoLocals

----------------------------------------------------------------------------
(* inputs *)

MaxPresent == 2
ScoreSteps == 4

(* values tried for a field: the non-finite ones, then finite ones below   *)
(* or at the lower edge of what the scorer distinguishes, inside, and at   *)
(* or above the upper edge *)
FieldVals(f) ==
    <<NaN, PosInf, NegInf>> \o
    CASE f = "peRatio"               -> <<Num(-1), Num(12), Num(61)>>
      [] f = "priceToSales"          -> <<Num(1), Num(4), Num(12)>>
      [] f = "priceToBook"           -> <<R(8, 10), Num(2), Num(6)>>
      [] f = "pegRatio"              -> <<R(5, 10), Num(1), Num(3)>>
      [] f = "revenueGrowth"         -> <<Num(0), R(15, 100), R(35, 100)>>
      [] f = "epsGrowth"             -> <<Num(0), R(20, 100), R(45, 100)>>
      [] f = "fiftyTwoWeekChangePct" -> <<Num(-40), Num(25), Num(150)>>
      [] f = "price"                 -> <<Num(80), Num(100), Num(120)>>
      [] f = "fiftyTwoWeekLow"       -> <<Num(80), Num(100), Num(120)>>
      [] f = "fiftyTwoWeekHigh"      -> <<Num(80), Num(100), Num(120)>>
      [] f = "profitMargin"          -> <<R(5, 100), R(20, 100), R(35, 100)>>
      [] f = "roe"                   -> <<R(8, 100), R(20, 100), R(35, 100)>>
      [] f = "change1dPct"           -> <<Num(-5), Num(1), Num(5)>>
      [] f = "changeFrom52wHighPct"  -> <<Num(-60), Num(-10), Num(10)>>
      [] f = "beta"                  -> <<R(8, 10), Num(1), R(18, 10)>>
      [] f = "marketCap"             -> <<Num(0), Num(-1000), Num(50000)>>

(* the snapshot whose fields in F hold the values picked by pick, the rest *)
(* being absent *)
Populate(F, pick) ==
    [f \in NumFields |-> IF f \in F THEN FieldVals(f)[pick[f]] ELSE Absent]
        @@ [ticker |-> "ACME", companyName |-> NullStr]

(* one input per factor, spread over its band in ScoreSteps equal steps *)
Spread(min, max) ==
    {Absent} \cup { Add(min, Mul(Sub(max, min), R(i, ScoreSteps))) : i \in 0..ScoreSteps }

Dense ==
    { [AllAbsent EXCEPT !.priceToSales = ps, !.revenueGrowth = rg, !.profitMargin = pm,
                        !.change1dPct = c1, !.beta = b] :
        ps \in Spread(Num(1), Num(12)), rg \in Spread(Num(0), R(35, 100)),
        pm \in Spread(R(5, 100), R(35, 100)), c1 \in Spread(Num(-5), Num(5)),
        b \in Spread(R(8, 10), R(18, 10)) }

(* every combination of price and the 52-week range *)
RangeFields == {"price", "fiftyTwoWeekLow", "fiftyTwoWeekHigh"}

(* the fields read by one scorer, or by the keyRisks tests *)
ValueFields       == {"peRatio", "priceToSales", "priceToBook", "pegRatio"}
GrowthFields      == {"revenueGrowth", "epsGrowth", "fiftyTwoWeekChangePct",
                      "price", "fiftyTwoWeekLow", "fiftyTwoWeekHigh"}
PriceGrowthFields == {"fiftyTwoWeekChangePct",
                      "price", "fiftyTwoWeekLow", "fiftyTwoWeekHigh"}
QualityFields     == {"profitMargin", "roe"}
MomentumFields    == {"change1dPct", "fiftyTwoWeekChangePct", "changeFrom52wHighPct"}
RiskFields        == {"beta", "marketCap"}
FundFields        == {"profitMargin", "roe", "revenueGrowth", "epsGrowth"}
FactorGroups      ==
    {ValueFields, GrowthFields, QualityFields, MomentumFields, RiskFields, FundFields}

(* market caps (in millions) from negative to above 10^12, and betas from  *)
(* below 0.8 to above 1.8 *)
CapVals ==
    {Absent, Num(-1000), Num(0), Num(500), Num(1000), Num(2000), Num(50000),
     Num(500000), Num(1000000), Num(2000000)}
BetaVals ==
    {Absent, R(5, 10), R(8, 10), Num(1), R(13, 10), R(18, 10), Num(2)}

(* values of beta and marketCap combined with the momentum inputs *)
RiskAlternatives ==
    {Absent, R(8, 10), R(18, 10)} \X {Absent, Num(1000), Num(50000)}

(* a fully populated snapshot: price 100 in a 52-week range of 80 to 120,  *)
(* P/E 12, margin and ROE 20%, revenue growth 15%, EPS growth 20%, beta 1, *)
(* market cap 5e10 *)
ExampleSnapshot ==
    [AllAbsent EXCEPT !.price = Num(100), !.fiftyTwoWeekLow = Num(80),
                      !.fiftyTwoWeekHigh = Num(120), !.peRatio = Num(12),
                      !.profitMargin = R(20, 100), !.roe = R(20, 100),
                      !.revenueGrowth = R(15, 100), !.epsGrowth = R(20, 100),
                      !.beta = Num(1), !.marketCap = Num(50000)]

----------------------------------------------------------------------------
(* the engine: one call of computeQuantAnalysis *)

Init ==
    /\ pc = "call"
    /\ \/ \E F \in SUBSET NumFields :
              /\ Cardinality(F) <= MaxPresent
              /\ \E pick \in [F -> 1..6] : snapshot = Populate(F, pick)
       \/ snapshot \in Dense
       \/ \E F \in SUBSET RangeFields :
              \E pick \in [F -> 1..6] : snapshot = Populate(F, pick)
    /\ analysis = NoAnalysis
    /\ args = NoArgs
    /\ result = NoResult
    /\ calls = <<>>
    /\ feed = NoFeed
    /\ RoutesIdle

(* the call: the object passed by reference is read, never written, and a  *)
(* new MarketAnalysis is returned *)
Analyze ==
    /\ pc = "call"
    /\ \E r \in {Call(snapshot)} :
           /\ analysis' = r.returned
           /\ snapshot' = r.argument
           /\ calls' = Append(calls, [given    |-> snapshot,
                                      returned |-> r.returned,
                                      after    |-> r.argument])
    /\ pc' = "returned"
    /\ UNCHANGED <<args, result, feed, routeVars>>

Next == Analyze

Spec == Init /\ [][Next]_vars

----------------------------------------------------------------------------
(* the engine, one factor at a time: the fields of one group hold finite   *)
(* values in every combination, the other fields being absent; or the      *)
(* price-growth fields hold any values; or the momentum fields are         *)
(* combined with beta and marketCap; or the snapshot is fully populated    *)

InitFactor ==
    /\ pc = "call"
    /\ \/ \E G \in FactorGroups : \E F \in SUBSET G :
              \E pick \in [F -> 4..6] : snapshot = Populate(F, pick)
       \/ \E F \in SUBSET PriceGrowthFields :
              \E pick \in [F -> 1..6] : snapshot = Populate(F, pick)
       \/ \E F \in SUBSET MomentumFields : \E pick \in [F -> 4..6] :
              \E alt \in RiskAlternatives :
                  snapshot = [Populate(F, pick) EXCEPT !.beta = alt[1], !.marketCap = alt[2]]
       \/ \E b \in BetaVals : \E cap \in CapVals :
              snapshot = [AllAbsent EXCEPT !.beta = b, !.marketCap = cap]
       \/ snapshot = ExampleSnapshot
    /\ analysis = NoAnalysis
    /\ args = NoArgs
    /\ result = NoResult
    /\ calls = <<>>
    /\ feed = NoFeed
    /\ RoutesIdle

SpecFactor == InitFactor /\ [][Next]_vars

----------------------------------------------------------------------------
(* successive calls of computeQuantAnalysis by one caller *)

MaxCalls == 3

SeqSnapshots ==
    {AllAbsent,
     ExampleSnapshot,
     [ExampleSnapshot EXCEPT !.companyName = "Acme Corp"],
     [AllAbsent EXCEPT !.peRatio = Num(12)],
     [AllAbsent EXCEPT !.peRatio = Num(12), !.beta = R(18, 10)]}

InitSeq ==
    /\ pc = "call"
    /\ snapshot \in SeqSnapshots
    /\ analysis = NoAnalysis
    /\ args = NoArgs
    /\ result = NoResult
    /\ calls = <<>>
    /\ feed = NoFeed
    /\ RoutesIdle

(* the caller passes the object just scored again, or another snapshot *)
NextCall ==
    /\ pc = "returned"
    /\ Len(calls) < MaxCalls
    /\ snapshot' \in SeqSnapshots \cup {snapshot}
    /\ pc' = "call"
    /\ UNCHANGED <<analysis, args, result, calls, feed, routeVars>>

NextSeq == Analyze \/ NextCall

SpecSeq == InitSeq /\ [][NextSeq]_vars

----------------------------------------------------------------------------
(* fetchYahooQuote: the core quote, then Yahoo financial-data, then the    *)
(* FMP ratios.  The snapshot keeps the fields the engine reads; prevClose, *)
(* dayHigh, dayLow, volume, avgVolume3m and changeFrom52wLowPct are left   *)
(* out.                                                                    *)

(* Number(val) *)
NumberOf(val) ==
    CASE val.t = "number"    -> val.v
      [] val.t = "null"      -> Num(0)
      [] val.t = "undefined" -> NaN
      [] val.t = "object"    -> NaN
      [] val.t = "string"    ->
            CASE val.s = ""     -> Num(0)
              [] val.s = "0.2"  -> R(2, 10)
              [] val.s = "n/a"  -> NaN

toNumber(val) ==
    IF val.t = "number" /\ IsFinite(val.v) THEN val.v
    ELSE LET parsed == NumberOf(val)
         IN  IF IsFinite(parsed) THEN parsed ELSE Absent

getRawNumber(field) ==
    IF field.t \in {"null", "undefined"} THEN Absent
    ELSE IF field.t = "number" /\ IsFinite(field.v) THEN field.v
    ELSE IF field.t = "object" /\ ~IsAbsent(field.v)
    THEN (IF IsFinite(field.v) THEN field.v ELSE Absent)
    ELSE Absent

(* typeof x === "number" ? x : null *)
IfNumber(x) == IF x.t = "number" THEN x.v ELSE Absent

(* a ?? b *)
Coalesce(a, b) == IF ~IsAbsent(a) THEN a ELSE b

(* the snapshot built from the quote node *)
quoteSnapshot(symbol, quote) ==
    LET price     == IfNumber(quote.regularMarketPrice)
        prevClose == IfNumber(quote.regularMarketPreviousClose)
        change1dPct ==
            IF quote.regularMarketChangePercent.t = "number"
            THEN quote.regularMarketChangePercent.v
            ELSE IF ~IsAbsent(price) /\ ~IsAbsent(prevClose) /\ prevClose # Num(0)
            THEN Mul(Div(Sub(price, prevClose), prevClose), Num(100))
            ELSE Absent
        fiftyTwoWeekHigh == IfNumber(quote.fiftyTwoWeekHigh)
        fiftyTwoWeekLow  == IfNumber(quote.fiftyTwoWeekLow)
        changeFrom52wHighPct ==
            IF ~IsAbsent(price) /\ ~IsAbsent(fiftyTwoWeekHigh) /\ fiftyTwoWeekHigh # Num(0)
            THEN Mul(Div(Sub(price, fiftyTwoWeekHigh), fiftyTwoWeekHigh), Num(100))
            ELSE Absent
        fiftyTwoWeekChangePct ==
            IF quote.fiftyTwoWeekChange.t = "number"
            THEN Mul(quote.fiftyTwoWeekChange.v, Num(100))
            ELSE Absent
        peRatio ==
            IF quote.trailingPE.t = "number" THEN quote.trailingPE.v
            ELSE IfNumber(quote.forwardPE)
    IN  [ticker      |-> IF quote.symbol # NullStr THEN quote.symbol ELSE symbol,
         companyName |-> IF quote.longName # NullStr THEN quote.longName
                         ELSE IF quote.shortName # NullStr THEN quote.shortName
                         ELSE symbol,
         price                 |-> price,
         fiftyTwoWeekHigh      |-> fiftyTwoWeekHigh,
         fiftyTwoWeekLow       |-> fiftyTwoWeekLow,
         change1dPct           |-> change1dPct,
         changeFrom52wHighPct  |-> changeFrom52wHighPct,
         fiftyTwoWeekChangePct |-> fiftyTwoWeekChangePct,
         marketCap             |-> IfNumber(quote.marketCap),
         peRatio               |-> peRatio,
         pegRatio              |-> IfNumber(quote.pegRatio),
         priceToSales          |-> IfNumber(quote.priceToSalesTrailing12Months),
         priceToBook           |-> IfNumber(quote.priceToBook),
         profitMargin          |-> Absent,
         roe                   |-> Absent,
         revenueGrowth         |-> Absent,
         epsGrowth             |-> Absent,
         beta                  |-> IfNumber(quote.beta)]

(* the snapshot after the financial-data step *)
fillFromFinancialData(base, fd) ==
    IF ~fd.ok THEN base
    ELSE [base EXCEPT
            !.profitMargin  = Coalesce(getRawNumber(fd.profitMargins), base.profitMargin),
            !.roe           = Coalesce(getRawNumber(fd.returnOnEquity), base.roe),
            !.revenueGrowth = Coalesce(getRawNumber(fd.revenueGrowth), base.revenueGrowth),
            !.epsGrowth     = Coalesce(getRawNumber(fd.earningsGrowth), base.epsGrowth),
            !.pegRatio      = Coalesce(getRawNumber(fd.pegRatio), base.pegRatio),
            !.priceToSales  = Coalesce(getRawNumber(fd.priceToSalesTrailing12Months),
                                       base.priceToSales),
            !.priceToBook   = Coalesce(getRawNumber(fd.priceToBook), base.priceToBook)]

(* enrichWithFmp preferring the FMP value to the one already in the        *)
(* snapshot *)
enrichWithFmpOverwriting(base, row) ==
    IF ~row.ok THEN base
    ELSE [base EXCEPT
            !.profitMargin  = Coalesce(toNumber(row.netProfitMarginTTM), base.profitMargin),
            !.roe           = Coalesce(toNumber(row.roeTTM), base.roe),
            !.revenueGrowth = Coalesce(toNumber(row.revenueGrowthTTM), base.revenueGrowth),
            !.epsGrowth     = Coalesce(toNumber(row.epsGrowthTTM), base.epsGrowth)]

enrichWithFmp(base, row) ==
    IF ~row.ok THEN base
    ELSE LET profitMarginTTM  == toNumber(row.netProfitMarginTTM)
             roeTTM           == toNumber(row.roeTTM)
             revenueGrowthTTM == toNumber(row.revenueGrowthTTM)
             epsGrowthTTM     == toNumber(row.epsGrowthTTM)
         IN  [base EXCEPT
                !.profitMargin  = IF ~IsAbsent(base.profitMargin)
                                  THEN base.profitMargin ELSE profitMarginTTM,
                !.roe           = IF ~IsAbsent(base.roe) THEN base.roe ELSE roeTTM,
                !.revenueGrowth = IF ~IsAbsent(base.revenueGrowth)
                                  THEN base.revenueGrowth ELSE revenueGrowthTTM,
                !.epsGrowth     = IF ~IsAbsent(base.epsGrowth)
                                  THEN base.epsGrowth ELSE epsGrowthTTM]

(* the answers tried *)
SymbolOnlyQuote == [NoQuote EXCEPT !.ok = TRUE, !.symbol = "ACME"]

FullQuote ==
    [NoQuote EXCEPT !.ok = TRUE, !.symbol = "ACME", !.longName = "Acme Corp",
        !.regularMarketPrice = JNum(Num(100)),
        !.regularMarketPreviousClose = JNum(Num(80)),
        !.fiftyTwoWeekHigh = JNum(Num(120)), !.fiftyTwoWeekLow = JNum(Num(80)),
        !.fiftyTwoWeekChange = JNum(R(25, 100)), !.marketCap = JNum(Num(50000)),
        !.forwardPE = JNum(Num(12)), !.priceToBook = JNum(Num(2)), !.beta = JNum(Num(1))]

(* the keys answered together: none, one, or all of them *)
KeySets(keys) == {{}, keys} \cup {{k} : k \in keys}

YahooKeys == {"profitMargins", "returnOnEquity", "revenueGrowth", "earningsGrowth"}
YahooVals == {JRaw(R(25, 100)), JNum(R(25, 100)), JRaw(Absent), JNull, JStr("0.2")}

FmpKeys == {"netProfitMarginTTM", "roeTTM", "revenueGrowthTTM", "epsGrowthTTM"}
FmpVals == {JNum(R(15, 100)), JNum(Num(0)), JNull, JStr(""), JStr("0.2"), JStr("n/a")}

InitFetch ==
    /\ pc = "fetch"
    /\ snapshot = AllAbsent
    /\ analysis = NoAnalysis
    /\ args = NoArgs
    /\ result = NoResult
    /\ calls = <<>>
    /\ RoutesIdle
    /\ \/ feed = NoFeed
       \/ \E quote \in {NoQuote, SymbolOnlyQuote, FullQuote} :
          \E fd \in {NoFinancialData} \cup
                     { [k \in YahooKeys |-> IF k \in Y THEN y ELSE JUndefined]
                           @@ [NoFinancialData EXCEPT !.ok = TRUE, !.pegRatio = extra] :
                       Y \in KeySets(YahooKeys), y \in YahooVals,
                       extra \in {JUndefined, JRaw(Num(1))} } :
          \E row \in {NoRow} \cup
                      { [k \in FmpKeys |-> IF k \in F THEN x ELSE JUndefined]
                            @@ [NoRow EXCEPT !.ok = TRUE] :
                        F \in KeySets(FmpKeys), x \in FmpVals } :
              feed = [symbol |-> "ACME", quote |-> quote, fd |-> fd, row |-> row]

(* steps 0 and 1: no key or no symbol, or the quote cannot be had: null;   *)
(* otherwise the snapshot is built from the quote node *)
FetchQuote ==
    /\ pc = "fetch"
    /\ IF feed.symbol = "" \/ ~feed.quote.ok
       THEN pc' = "failed" /\ UNCHANGED snapshot
       ELSE pc' = "quoted" /\ snapshot' = quoteSnapshot(feed.symbol, feed.quote)
    /\ UNCHANGED <<analysis, args, result, calls, feed, routeVars>>

(* step 2 *)
FetchFinancialData ==
    /\ pc = "quoted"
    /\ snapshot' = fillFromFinancialData(snapshot, feed.fd)
    /\ pc' = "filled"
    /\ UNCHANGED <<analysis, args, result, calls, feed, routeVars>>

(* step 3: the enriched snapshot is returned *)
EnrichWithFmp ==
    /\ pc = "filled"
    /\ snapshot' = enrichWithFmp(snapshot, feed.row)
    /\ pc' = "fetched"
    /\ UNCHANGED <<analysis, args, result, calls, feed, routeVars>>

NextFetch == FetchQuote \/ FetchFinancialData \/ EnrichWithFmp

SpecFetch == InitFetch /\ [][NextFetch]_vars

----------------------------------------------------------------------------
(* the helpers called directly: the band mapper and the P/E curve, each on *)
(* a pair of values so that two results can be compared *)

FnSteps == 3
PeTop   == 62
PeDenom == 2

(* the bands the scorers use *)
Bands ==
    {<<Num(1), Num(12)>>, <<R(8, 10), Num(6)>>, <<R(5, 10), Num(3)>>,
     <<Num(0), R(35, 100)>>, <<Num(0), R(45, 100)>>, <<Num(-40), Num(150)>>,
     <<Num(0), Num(1)>>, <<R(5, 100), R(35, 100)>>, <<R(8, 100), R(35, 100)>>,
     <<Num(-5), Num(5)>>, <<Num(-60), Num(0)>>, <<R(8, 10), R(18, 10)>>,
     <<Num(9), Num(12)>>}

(* from one step below the band to one step above it, and the values that *)
(* are no finite number *)
BandVals(min, max) ==
    {Absent, NaN, PosInf, NegInf} \cup
    { Add(min, Mul(Sub(max, min), R(i, FnSteps))) : i \in -1..(FnSteps + 1) }

(* bands with min = max and min > max, which no scorer uses *)
DegenerateBands == {<<Num(1), Num(1)>>, <<Num(12), Num(1)>>}

(* entries of a list of sub-scores, and the longest list *)
MaxScores == 3
ScoreVals == {Absent, NaN, PosInf, Num(10), R(105, 2), Num(95)}

PeVals ==
    {Absent, NaN, PosInf, NegInf} \cup
    { R(i, PeDenom) : i \in (-PeDenom)..(PeTop * PeDenom) }

InitFn ==
    /\ pc = "call"
    /\ snapshot = AllAbsent
    /\ analysis = NoAnalysis
    /\ result = NoResult
    /\ calls = <<>>
    /\ feed = NoFeed
    /\ RoutesIdle
    /\ \/ \E b \in Bands \cup DegenerateBands : \E x \in BandVals(b[1], b[2]) : \E y \in BandVals(b[1], b[2]) :
              args = [fn |-> "scoreFromBand", x |-> x, y |-> y, min |-> b[1], max |-> b[2],
                      scores |-> <<>>]
       \/ \E x \in PeVals : \E y \in PeVals :
              args = [fn |-> "scoreFromPe", x |-> x, y |-> y, min |-> Absent, max |-> Absent,
                      scores |-> <<>>]
       \/ \E n \in 0..MaxScores : \E scores \in [1..n -> ScoreVals] :
              args = [NoArgs EXCEPT !.fn = "avgScores", !.scores = scores]

ApplyBand ==
    /\ pc = "call"
    /\ args.fn = "scoreFromBand"
    /\ result' = [x       |-> scoreFromBand(args.x, args.min, args.max),
                  y       |-> scoreFromBand(args.y, args.min, args.max),
                  xOrNull |-> scoreFromBandOrNull(args.x, args.min, args.max),
                  yOrNull |-> scoreFromBandOrNull(args.y, args.min, args.max)]
    /\ pc' = "returned"
    /\ UNCHANGED <<snapshot, analysis, args, calls, feed, routeVars>>

ApplyPe ==
    /\ pc = "call"
    /\ args.fn = "scoreFromPe"
    /\ result' = [x       |-> scoreFromPeOrNull(args.x),
                  y       |-> scoreFromPeOrNull(args.y),
                  xOrNull |-> scoreFromPeOrNull(args.x),
                  yOrNull |-> scoreFromPeOrNull(args.y)]
    /\ pc' = "returned"
    /\ UNCHANGED <<snapshot, analysis, args, calls, feed, routeVars>>

ApplyAvg ==
    /\ pc = "call"
    /\ args.fn = "avgScores"
    /\ result' = [NoResult EXCEPT !.x       = avgScores(args.scores),
                                  !.xOrNull = avgScoresOrNull(args.scores)]
    /\ pc' = "returned"
    /\ UNCHANGED <<snapshot, analysis, args, calls, feed, routeVars>>

NextFn == ApplyBand \/ ApplyPe \/ ApplyAvg

SpecFn == InitFn /\ [][NextFn]_vars

----------------------------------------------------------------------------
(* the route handlers: requests, the provider and the database *)

(* a body without ticker, and the body null *)
Undefined == "<undefined>"
NullBody  == "<null body>"

(* String.prototype.trim and toUpperCase on the request texts used here *)
trim(t) ==
    CASE t = "  "     -> ""
      [] t = " acme " -> "acme"
      [] t = " aapl " -> "aapl"
      [] OTHER        -> t

toUpperCase(t) ==
    CASE t = "acme" -> "ACME"
      [] t = "msft" -> "MSFT"
      [] t = "aapl" -> "AAPL"
      [] t = "tsla" -> "TSLA"
      [] OTHER      -> t

(* (body.ticker ?? "").toString().trim().toUpperCase() *)
tickerOf(raw) == toUpperCase(trim(IF raw = Undefined THEN "" ELSE raw))

RawTickers == {Undefined, NullBody, "", "  ", "acme", " acme ", "ACME", "msft"}

(* what fetchYahooQuote resolves to: null, or a snapshot of the symbol      *)
(* whose companyName is the long name or the symbol itself                  *)
NoSnapshot == [ticker |-> NullStr]

BetaOnlySnapshot == [AllAbsent EXCEPT !.beta = R(13, 10)]

WeakSnapshot ==
    [AllAbsent EXCEPT !.peRatio = Num(61), !.profitMargin = R(5, 100),
                      !.roe = R(8, 100), !.revenueGrowth = Num(0),
                      !.epsGrowth = Num(0), !.fiftyTwoWeekChangePct = Num(-40)]

ProviderSnapshots(ticker) ==
    { [s EXCEPT !.ticker = ticker, !.companyName = c] :
        s \in {AllAbsent, BetaOnlySnapshot, ExampleSnapshot, WeakSnapshot},
        c \in {ticker, "Acme Corp"} }

FetchResults(ticker) == {NoSnapshot} \cup ProviderSnapshots(ticker)

(* the placeholder scored when the provider has nothing *)
PlaceholderSnapshot(ticker) ==
    [AllAbsent EXCEPT !.ticker = ticker, !.companyName = ticker]

FALLBACK_ANALYSIS ==
    [rating             |-> "HOLD",
     conviction         |-> Num(40),
     toneScore          |-> Num(50),
     growthScore        |-> Num(50),
     profitabilityScore |-> Num(50),
     valuationScore     |-> Num(50),
     balanceScore       |-> Num(50),
     healthScore        |-> Num(50),
     summary            |-> <<"neutral placeholder">>,
     keyRisks           |-> <<"Insufficient or inconsistent data for robust scoring.">>,
     thesis             |-> <<"Data gaps prevent a clear directional view.">>]

(* the analysis stored and returned, with the engine's result kept even    *)
(* when all six scores are 50 *)
finalOfEngine(a) == a

(* const final = allFifty ? FALLBACK_ANALYSIS : analysis *)
finalOf(a) == IF allFifty(a) THEN FALLBACK_ANALYSIS ELSE a

(* the data of a Stock row written from an analysis *)
StockData(company, a) ==
    [company            |-> company,
     toneScore          |-> a.toneScore,
     growthScore        |-> a.growthScore,
     profitabilityScore |-> a.profitabilityScore,
     valuationScore     |-> a.valuationScore,
     balanceScore       |-> a.balanceScore,
     healthScore        |-> a.healthScore,
     rating             |-> a.rating,
     notes              |-> a.summary]

HasStock(rows, ticker) == \E r \in rows : r.ticker = ticker
StockOf(rows, ticker)  == CHOOSE r \in rows : r.ticker = ticker
MaxId(rows) ==
    IF rows = {} THEN 0
    ELSE CHOOSE i \in {r.id : r \in rows} : \A r \in rows : r.id <= i

(* prisma.stock.upsert({ where: { ticker }, create, update }): the row of  *)
(* the ticker keeps its id and takes the data, or a new row is inserted    *)
(* under the next id                                                       *)
upsert(rows, ticker, data) ==
    IF HasStock(rows, ticker)
    THEN LET old == StockOf(rows, ticker)
             new == [id |-> old.id, ticker |-> ticker] @@ data
         IN  [rows |-> (rows \ {old}) \cup {new}, stock |-> new]
    ELSE LET new == [id |-> MaxId(rows) + 1, ticker |-> ticker] @@ data
         IN  [rows |-> rows \cup {new}, stock |-> new]

(* the ToneAnalysis row logged for a stock *)
ToneRow(stock, a) ==
    [stockId         |-> stock.id,
     confidenceScore |-> a.conviction,
     finalToneScore  |-> a.healthScore,
     summary         |-> a.summary,
     recommendation  |-> a.rating]

(* a row stored by an earlier request *)
StoredRow(id, ticker, score, rating) ==
    [id                 |-> id,
     ticker             |-> ticker,
     company            |-> ticker,
     toneScore          |-> Num(score),
     growthScore        |-> Num(score),
     profitabilityScore |-> Num(score),
     valuationScore     |-> Num(score),
     balanceScore       |-> Num(score),
     healthScore        |-> Num(score),
     rating             |-> rating,
     notes              |-> <<ticker, ticker>>]

(* contents of the Stock table when a request arrives *)
StoredStocks ==
    { {},
      {StoredRow(7, "ACME", 74, "BUY")},
      {StoredRow(3, "MSFT", 31, "SELL"), StoredRow(7, "ACME", 74, "BUY")} }

Effect(op, arg, ok) == [op |-> op, arg |-> arg, ok |-> ok]

----------------------------------------------------------------------------
(* POST /api/analyze-stock: validate, fetch, score, upsert the Stock row,  *)
(* log a ToneAnalysis row, respond                                         *)

InitAnalyzeStock ==
    /\ pc = "validate"
    /\ snapshot = AllAbsent
    /\ analysis = NoAnalysis
    /\ args = NoArgs
    /\ result = NoResult
    /\ calls = <<>>
    /\ feed = NoFeed
    /\ stocks \in StoredStocks
    /\ toneAnalyses = <<>>
    /\ \E raw \in RawTickers : request = [route |-> "analyze-stock", ticker |-> raw]
    /\ response = NoResponse
    /\ effects = <<>>
    /\ locals = NoLocals

(* lines 33-41, and 152-157 when reading body.ticker of a null body throws *)
AnalyzeStockValidate ==
    /\ pc = "validate"
    /\ LET ticker == tickerOf(request.ticker)
       IN  IF request.ticker = NullBody
           THEN /\ response' = [status |-> 500, error |-> "TypeError"]
                /\ pc' = "done"
                /\ UNCHANGED locals
           ELSE IF ticker = ""
           THEN /\ response' = [status |-> 400, error |-> "ticker is required"]
                /\ pc' = "done"
                /\ UNCHANGED locals
           ELSE /\ locals' = [ticker |-> ticker]
                /\ pc' = "fetch"
                /\ UNCHANGED response
    /\ UNCHANGED <<snapshot, analysis, args, result, calls, feed,
                   stocks, toneAnalyses, request, effects>>

(* lines 43-77 *)
AnalyzeStockFetch ==
    /\ pc = "fetch"
    /\ \E fetched \in FetchResults(locals.ticker) :
           /\ snapshot' = IF fetched = NoSnapshot
                          THEN PlaceholderSnapshot(locals.ticker)
                          ELSE fetched
           /\ effects' = Append(effects,
                                Effect("fetchYahooQuote", locals.ticker, fetched # NoSnapshot))
    /\ pc' = "score"
    /\ UNCHANGED <<analysis, args, result, calls, feed,
                   stocks, toneAnalyses, request, response, locals>>

(* lines 81-92 *)
AnalyzeStockScore ==
    /\ pc = "score"
    /\ analysis' = computeQuantAnalysis(snapshot)
    /\ locals' = [ticker |-> locals.ticker, final |-> finalOf(analysis')]
    /\ pc' = "upsert"
    /\ UNCHANGED <<snapshot, args, result, calls, feed,
                   stocks, toneAnalyses, request, response, effects>>

(* lines 94-120, and 152-157 when the database call throws *)
AnalyzeStockUpsert ==
    /\ pc = "upsert"
    /\ \/ \E u \in {upsert(stocks, locals.ticker,
                           StockData(IF snapshot.companyName # NullStr
                                     THEN snapshot.companyName ELSE locals.ticker,
                                     locals.final))} :
              /\ stocks' = u.rows
              /\ locals' = [ticker |-> locals.ticker, final |-> locals.final,
                            stock |-> u.stock]
              /\ effects' = Append(effects, Effect("stock.upsert", locals.ticker, TRUE))
              /\ pc' = "log"
              /\ UNCHANGED response
       \/ /\ effects' = Append(effects, Effect("stock.upsert", locals.ticker, FALSE))
          /\ response' = [status |-> 500, error |-> "database error"]
          /\ pc' = "done"
          /\ UNCHANGED <<stocks, locals>>
    /\ UNCHANGED <<snapshot, analysis, args, result, calls, feed,
                   toneAnalyses, request>>

(* AnalyzeStockLog with a failure of the history row answered by 500 *)
AnalyzeStockLogStrict ==
    /\ pc = "log"
    /\ \/ /\ toneAnalyses' = Append(toneAnalyses, ToneRow(locals.stock, locals.final))
          /\ effects' = Append(effects, Effect("toneAnalysis.create", locals.ticker, TRUE))
          /\ response' = [status |-> 200, stock |-> locals.stock, snapshot |-> snapshot,
                          analysis |-> locals.final]
       \/ /\ effects' = Append(effects, Effect("toneAnalysis.create", locals.ticker, FALSE))
          /\ response' = [status |-> 500, error |-> "database error"]
          /\ UNCHANGED toneAnalyses
    /\ pc' = "done"
    /\ UNCHANGED <<snapshot, analysis, args, result, calls, feed,
                   stocks, request, locals>>

(* lines 122-151: a failure of the history row is logged and swallowed *)
AnalyzeStockLog ==
    /\ pc = "log"
    /\ \/ /\ toneAnalyses' = Append(toneAnalyses, ToneRow(locals.stock, locals.final))
          /\ effects' = Append(effects, Effect("toneAnalysis.create", locals.ticker, TRUE))
       \/ /\ effects' = Append(effects, Effect("toneAnalysis.create", locals.ticker, FALSE))
          /\ UNCHANGED toneAnalyses
    /\ response' = [status |-> 200, stock |-> locals.stock, snapshot |-> snapshot,
                    analysis |-> locals.final]
    /\ pc' = "done"
    /\ UNCHANGED <<snapshot, analysis, args, result, calls, feed,
                   stocks, request, locals>>

NextAnalyzeStock ==
    \/ AnalyzeStockValidate
    \/ AnalyzeStockFetch
    \/ AnalyzeStockScore
    \/ AnalyzeStockUpsert
    \/ AnalyzeStockLog

SpecAnalyzeStock == InitAnalyzeStock /\ [][NextAnalyzeStock]_vars

----------------------------------------------------------------------------
(* POST /api/refresh-stocks: every stored stock is fetched and scored      *)
(* again, one after the other                                              *)

(* prisma.stock.findMany({ select: { id, ticker }, orderBy: { id: "asc" } }) *)
RECURSIVE findManyById(_)
findManyById(rows) ==
    IF rows = {} THEN <<>>
    ELSE LET first == CHOOSE r \in rows : \A q \in rows : r.id <= q.id
         IN  <<[id |-> first.id, ticker |-> first.ticker]>>
                 \o findManyById(rows \ {first})

(* prisma.stock.update({ where: { id }, data }) *)
update(rows, id, data) ==
    { IF r.id = id THEN [id |-> r.id, ticker |-> r.ticker] @@ data ELSE r : r \in rows }

(* contents of the Stock table when the refresh is requested *)
RefreshTables ==
    StoredStocks \cup
    { {StoredRow(3, "MSFT", 31, "SELL"), StoredRow(7, "ACME", 74, "BUY"),
       StoredRow(8, "TSLA", 50, "HOLD")} }

Detail(ticker, ok, error) == [ticker |-> ticker, ok |-> ok, error |-> error]

CountOk(details, ok) == Cardinality({i \in 1..Len(details) : details[i].ok = ok})

InitRefresh ==
    /\ pc = "start"
    /\ snapshot = AllAbsent
    /\ analysis = NoAnalysis
    /\ args = NoArgs
    /\ result = NoResult
    /\ calls = <<>>
    /\ feed = NoFeed
    /\ stocks \in RefreshTables
    /\ toneAnalyses = <<>>
    /\ request = [route |-> "refresh-stocks"]
    /\ response = NoResponse
    /\ effects = <<>>
    /\ locals = NoLocals

(* lines 12-26, and 101-106 when the query throws *)
RefreshStart ==
    /\ pc = "start"
    /\ \/ /\ effects' = Append(effects, Effect("stock.findMany", "", TRUE))
          /\ IF stocks = {}
             THEN /\ response' = [status |-> 200, message |-> "No stocks in DB to refresh."]
                  /\ pc' = "done"
                  /\ UNCHANGED locals
             ELSE /\ locals' = [allStocks |-> findManyById(stocks), results |-> <<>>]
                  /\ pc' = "loop"
                  /\ UNCHANGED response
       \/ /\ effects' = Append(effects, Effect("stock.findMany", "", FALSE))
          /\ response' = [status |-> 500, error |-> "database error"]
          /\ pc' = "done"
          /\ UNCHANGED locals
    /\ UNCHANGED <<snapshot, analysis, args, result, calls, feed,
                   stocks, toneAnalyses, request>>

(* RefreshOne giving up the remaining stocks when one of them has no       *)
(* snapshot *)
RefreshOneAborting ==
    /\ pc = "loop"
    /\ Len(locals.results) < Len(locals.allStocks)
    /\ LET s      == locals.allStocks[Len(locals.results) + 1]
           ticker == toUpperCase(s.ticker)
       IN  \E fetched \in FetchResults(ticker) :
           \E a \in {IF fetched = NoSnapshot THEN NoAnalysis
                     ELSE computeQuantAnalysis(fetched)} :
               /\ snapshot' = fetched
               /\ analysis' = a
               /\ IF fetched = NoSnapshot
                  THEN /\ effects' = Append(effects, Effect("fetchYahooQuote", ticker, FALSE))
                       /\ locals' = [locals EXCEPT !.allStocks = SubSeq(@, 1, Len(locals.results) + 1),
                                                   !.results = Append(@,
                                        Detail(ticker, FALSE, "No snapshot from data providers"))]
                       /\ UNCHANGED stocks
                  ELSE IF allFifty(a)
                  THEN /\ effects' = Append(effects, Effect("fetchYahooQuote", ticker, TRUE))
                       /\ locals' = [locals EXCEPT !.results = Append(@,
                                        Detail(ticker, FALSE, "All scores 50 (insufficient data)"))]
                       /\ UNCHANGED stocks
                  ELSE \/ /\ stocks' = update(stocks, s.id,
                                              StockData(IF fetched.companyName # NullStr
                                                        THEN fetched.companyName ELSE ticker, a))
                          /\ effects' = effects \o <<Effect("fetchYahooQuote", ticker, TRUE),
                                                     Effect("stock.update", ticker, TRUE)>>
                          /\ locals' = [locals EXCEPT !.results = Append(@,
                                           Detail(ticker, TRUE, ""))]
                       \/ /\ effects' = effects \o <<Effect("fetchYahooQuote", ticker, TRUE),
                                                     Effect("stock.update", ticker, FALSE)>>
                          /\ locals' = [locals EXCEPT !.results = Append(@,
                                           Detail(ticker, FALSE, "database error"))]
                          /\ UNCHANGED stocks
    /\ UNCHANGED <<pc, args, result, calls, feed, toneAnalyses, request, response>>

(* lines 29-88: one iteration of the loop, with its own try/catch *)
RefreshOne ==
    /\ pc = "loop"
    /\ Len(locals.results) < Len(locals.allStocks)
    /\ LET s      == locals.allStocks[Len(locals.results) + 1]
           ticker == toUpperCase(s.ticker)
       IN  \E fetched \in FetchResults(ticker) :
           \E a \in {IF fetched = NoSnapshot THEN NoAnalysis
                     ELSE computeQuantAnalysis(fetched)} :
               /\ snapshot' = fetched
               /\ analysis' = a
               /\ IF fetched = NoSnapshot
                  THEN /\ effects' = Append(effects, Effect("fetchYahooQuote", ticker, FALSE))
                       /\ locals' = [locals EXCEPT !.results = Append(@,
                                        Detail(ticker, FALSE, "No snapshot from data providers"))]
                       /\ UNCHANGED stocks
                  ELSE IF allFifty(a)
                  THEN /\ effects' = Append(effects, Effect("fetchYahooQuote", ticker, TRUE))
                       /\ locals' = [locals EXCEPT !.results = Append(@,
                                        Detail(ticker, FALSE, "All scores 50 (insufficient data)"))]
                       /\ UNCHANGED stocks
                  ELSE \/ /\ stocks' = update(stocks, s.id,
                                              StockData(IF fetched.companyName # NullStr
                                                        THEN fetched.companyName ELSE ticker, a))
                          /\ effects' = effects \o <<Effect("fetchYahooQuote", ticker, TRUE),
                                                     Effect("stock.update", ticker, TRUE)>>
                          /\ locals' = [locals EXCEPT !.results = Append(@,
                                           Detail(ticker, TRUE, ""))]
                       \/ /\ effects' = effects \o <<Effect("fetchYahooQuote", ticker, TRUE),
                                                     Effect("stock.update", ticker, FALSE)>>
                          /\ locals' = [locals EXCEPT !.results = Append(@,
                                           Detail(ticker, FALSE, "database error"))]
                          /\ UNCHANGED stocks
    /\ UNCHANGED <<pc, args, result, calls, feed, toneAnalyses, request, response>>

(* lines 90-98 *)
RefreshRespond ==
    /\ pc = "loop"
    /\ Len(locals.results) = Len(locals.allStocks)
    /\ response' = [status    |-> 200,
                    refreshed |-> CountOk(locals.results, TRUE),
                    failed    |-> CountOk(locals.results, FALSE),
                    details   |-> locals.results]
    /\ pc' = "done"
    /\ UNCHANGED <<snapshot, analysis, args, result, calls, feed,
                   stocks, toneAnalyses, request, effects, locals>>

NextRefresh == RefreshStart \/ RefreshOne \/ RefreshRespond

SpecRefresh == InitRefresh /\ [][NextRefresh]_vars

----------------------------------------------------------------------------
(* GET /api/recommend-stocks: the curated tickers not yet stored are       *)
(* analysed, a few per request, and the stored ones are ranked             *)

POPULAR_TICKERS ==
    <<"AAPL", "MSFT", "NVDA", "AMZN", "GOOGL", "META", "TSLA", "BRK.B", "JPM", "V",
      "MA", "AVGO", "ADBE", "NFLX", "COST", "PEP", "KO", "WMT", "UNH", "LLY",
      "XOM", "CVX", "LIN", "ASML", "AMD", "INTC", "TGT", "DIS", "PYPL">>

MAX_NEW_ANALYSES == 8

(* Array.prototype.slice(0, n) *)
slice(seq, n) == SubSeq(seq, 1, IF Len(seq) < n THEN Len(seq) ELSE n)

(* the exclude parameter: split at the commas, each item trimmed and       *)
(* upper-cased, the empty items dropped                                    *)
excludeSetOf(items) ==
    { toUpperCase(trim(items[i])) : i \in 1..Len(items) } \ {""}

ExcludeLists == {<<>>, <<" aapl ", "">>, <<"MSFT", "tsla", "NVDA">>, POPULAR_TICKERS}

(* what the provider and the database do with one ticker, request after   *)
(* request: the snapshot fetched (or none), whether its Stock row can be   *)
(* written, and whether its ToneAnalysis row can                           *)
Outcome(fetched, writable, logged) ==
    [fetched |-> fetched, writable |-> writable, logged |-> logged]

Answering(ticker, logged) ==
    Outcome([ExampleSnapshot EXCEPT !.ticker = ticker, !.companyName = ticker], TRUE, logged)

FailingOutcomes(ticker) ==
    << Outcome(NoSnapshot, TRUE, TRUE),
       Outcome(PlaceholderSnapshot(ticker), TRUE, TRUE),
       Outcome([BetaOnlySnapshot EXCEPT !.ticker = ticker, !.companyName = ticker],
               TRUE, TRUE),
       Outcome([ExampleSnapshot EXCEPT !.ticker = ticker, !.companyName = ticker],
               FALSE, TRUE) >>

(* the positions of the curated list whose ticker keeps failing: the first *)
(* k, or every other one                                                   *)
MaxFailing == 9
FailingPositions ==
    { 1..k : k \in 0..MaxFailing } \cup { {i \in 1..Len(POPULAR_TICKERS) : i % 2 = 1} }

PositionOf(ticker) == CHOOSE i \in 1..Len(POPULAR_TICKERS) : POPULAR_TICKERS[i] = ticker

CuratedSet == { POPULAR_TICKERS[i] : i \in 1..Len(POPULAR_TICKERS) }

(* an outcome together with what computeQuantAnalysis, a pure function,   *)
(* returns for its snapshot                                                *)
Scored(outcome) ==
    [fetched  |-> outcome.fetched,
     writable |-> outcome.writable,
     logged   |-> outcome.logged,
     analysis |-> IF outcome.fetched = NoSnapshot THEN NoAnalysis
                  ELSE computeQuantAnalysis(outcome.fetched)]

InitRecommend ==
    /\ pc = "idle"
    /\ snapshot = AllAbsent
    /\ analysis = NoAnalysis
    /\ args = NoArgs
    /\ result = NoResult
    /\ calls = <<>>
    /\ \E F \in FailingPositions : \E logged \in BOOLEAN :
           feed = [t \in CuratedSet |->
                      Scored(IF PositionOf(t) \in F
                             THEN FailingOutcomes(t)[(PositionOf(t) % 4) + 1]
                             ELSE Answering(t, logged))]
    /\ stocks \in {{}, {StoredRow(3, "MSFT", 31, "SELL"), StoredRow(7, "ACME", 74, "BUY")}}
    /\ toneAnalyses = <<>>
    /\ \E ex \in ExcludeLists :
           request = [route |-> "recommend-stocks", riskProfile |-> "balanced",
                      exclude |-> ex]
    /\ response = NoResponse
    /\ effects = <<>>
    /\ locals = NoLocals

(* lines 241-288: the candidates, the stored ones, the first               *)
(* MAX_NEW_ANALYSES missing ones; 321-327 when the query throws            *)
RecommendStart ==
    /\ pc = "idle"
    /\ LET excludeSet       == excludeSetOf(request.exclude)
           NotExcluded(t)   == toUpperCase(t) \notin excludeSet
           candidateTickers == SelectSeq(POPULAR_TICKERS, NotExcluded)
           existingSet      == { toUpperCase(r.ticker) : r \in stocks }
           IsMissing(t)     == toUpperCase(t) \notin existingSet
           missing          == SelectSeq(candidateTickers, IsMissing)
           toAnalyze        == slice(missing, MAX_NEW_ANALYSES)
       IN  IF Len(candidateTickers) = 0
           THEN /\ response' = [status |-> 200, count |-> 0]
                /\ effects' = <<>>
                /\ UNCHANGED <<pc, locals>>
           ELSE \/ /\ locals' = [candidateTickers |-> candidateTickers,
                                  toAnalyze |-> toAnalyze, analysed |-> 0]
                   /\ effects' = <<Effect("stock.findMany", "", TRUE)>>
                   /\ pc' = "analyze"
                   /\ UNCHANGED response
                \/ /\ response' = [status |-> 500, error |-> "database error"]
                   /\ effects' = <<Effect("stock.findMany", "", FALSE)>>
                   /\ UNCHANGED <<pc, locals>>
    /\ UNCHANGED <<snapshot, analysis, args, result, calls, feed,
                   stocks, toneAnalyses, request>>

(* lines 156-239, analyzeAndUpsertTicker for the next ticker of the loop   *)
(* at 286-288: nothing it does can make the request fail                   *)
RecommendAnalyzeOne ==
    /\ pc = "analyze"
    /\ locals.analysed < Len(locals.toAnalyze)
    /\ LET ticker == locals.toAnalyze[locals.analysed + 1]
           fetched == feed[ticker].fetched
       IN  \E a \in {feed[ticker].analysis} :
               /\ snapshot' = fetched
               /\ analysis' = a
               /\ IF fetched = NoSnapshot
                  THEN /\ effects' = Append(effects, Effect("fetchYahooQuote", ticker, FALSE))
                       /\ UNCHANGED <<stocks, toneAnalyses>>
                  ELSE IF allFifty(a)
                  THEN /\ effects' = Append(effects, Effect("fetchYahooQuote", ticker, TRUE))
                       /\ UNCHANGED <<stocks, toneAnalyses>>
                  ELSE IF ~feed[ticker].writable
                  THEN /\ effects' = effects \o <<Effect("fetchYahooQuote", ticker, TRUE),
                                                  Effect("stock.upsert", ticker, FALSE)>>
                       /\ UNCHANGED <<stocks, toneAnalyses>>
                  ELSE \E u \in {upsert(stocks, ticker,
                                        StockData(IF fetched.companyName # NullStr
                                                  THEN fetched.companyName ELSE ticker, a))} :
                         /\ stocks' = u.rows
                         /\ toneAnalyses' = IF feed[ticker].logged
                                            THEN Append(toneAnalyses, ToneRow(u.stock, a))
                                            ELSE toneAnalyses
                         /\ effects' = effects \o
                               <<Effect("fetchYahooQuote", ticker, TRUE),
                                 Effect("stock.upsert", ticker, TRUE),
                                 Effect("toneAnalysis.create", ticker, feed[ticker].logged)>>
    /\ locals' = [locals EXCEPT !.analysed = @ + 1]
    /\ UNCHANGED <<pc, args, result, calls, feed, request, response>>

(* lines 290-320: the stored candidates with a healthScore, at most 8 of   *)
(* them in the response                                                    *)
RecommendRespond ==
    /\ pc = "analyze"
    /\ locals.analysed = Len(locals.toAnalyze)
    /\ LET InPool(t) == \E r \in stocks : r.ticker = t
           pool      == SelectSeq(locals.candidateTickers, InPool)
       IN  response' = [status |-> 200, count |-> Len(slice(pool, 8))]
    /\ pc' = "idle"
    /\ UNCHANGED <<snapshot, analysis, args, result, calls, feed,
                   stocks, toneAnalyses, request, effects, locals>>

NextRecommend == RecommendStart \/ RecommendAnalyzeOne \/ RecommendRespond

(* requests keep arriving and every request runs to its response *)
SpecRecommend == InitRecommend /\ [][NextRecommend]_vars /\ WF_vars(NextRecommend)

----------------------------------------------------------------------------
(* vocabulary of the properties *)

Returned == pc = "returned"

ScoreNames ==
    {"toneScore", "growthScore", "profitabilityScore", "valuationScore",
     "balanceScore", "healthScore"}

(* every numeric field is absent or a finite number *)
ValidInput == \A f \in NumFields : IsAbsent(snapshot[f]) \/ IsFinite(snapshot[f])

AllAbsentInput == \A f \in NumFields : IsAbsent(snapshot[f])

IntegerIn(x, lo, hi) == IsInteger(x) /\ lo <= x.n /\ x.n <= hi

(* floor(p/q + 1/2) for q > 0 *)
RoundHalfUp(p, q) == (2 * p + q) \div (2 * q)

----------------------------------------------------------------------------
(* properties of computeQuantAnalysis (specification Spec) *)

(* C1: for a snapshot whose numeric fields are each absent or finite, the  *)
(* six returned scores are integers in [0,100] and the conviction is an    *)
(* integer in [10,90].                                                     *)
C1_ScoresInRange ==
    (Returned /\ ValidInput) =>
        /\ \A f \in ScoreNames : IntegerIn(analysis[f], 0, 100)
        /\ IntegerIn(analysis.conviction, 10, 90)

(* C1 witness: a call with finite inputs returned scores away from neutral *)
C1_Witness ==
    /\ Returned /\ ValidInput /\ ~AllAbsentInput
    /\ analysis.valuationScore = Num(95)
    /\ analysis.conviction.n > 35

(* C2: for the snapshot with every financial field absent the four factor  *)
(* scores, balanceScore and healthScore are 50, the rating is HOLD, the    *)
(* conviction is 35 and keyRisks has at least one entry.                   *)
C2_AllAbsentNeutral ==
    (Returned /\ AllAbsentInput) =>
        /\ \A f \in ScoreNames : analysis[f] = Num(50)
        /\ analysis.rating = "HOLD"
        /\ analysis.conviction = Num(35)
        /\ Len(analysis.keyRisks) >= 1

(* C2 witness: the call on the all-absent snapshot has returned *)
C2_Witness == Returned /\ AllAbsentInput /\ analysis.healthScore = Num(50)

(* C3 as stated: for the snapshot with every financial field absent,       *)
(* keyRisks is exactly the one generic "trailing data only" caveat.        *)
C3_SingleGenericCaveat ==
    (Returned /\ AllAbsentInput) => analysis.keyRisks = <<CaveatTrailing>>

(* C3 amended: for the snapshot with every financial field absent,         *)
(* keyRisks has exactly two entries, the profitability caveat followed by  *)
(* the growth-data caveat; the generic caveat is not among them.           *)
C3_TwoDataCaveats ==
    (Returned /\ AllAbsentInput) =>
        analysis.keyRisks = <<CaveatProfitability, CaveatGrowth>>

(* C3 witness: the all-absent call returned a two-entry list *)
C3_Witness == Returned /\ AllAbsentInput /\ Len(analysis.keyRisks) = 2

(* C4: the rating is BUY exactly when healthScore >= 72 and balanceScore   *)
(* >= 60; otherwise SELL exactly when healthScore <= 40 or balanceScore    *)
(* <= 40; otherwise HOLD.  With balanceScore >= 60, healthScore 71 gives   *)
(* HOLD and healthScore 72 gives BUY.                                      *)
C4_RatingThresholds ==
    Returned =>
        LET h   == analysis.healthScore.n
            b   == analysis.balanceScore.n
            buy == h >= 72 /\ b >= 60
            low == h <= 40 \/ b <= 40
        IN  /\ IsInteger(analysis.healthScore) /\ IsInteger(analysis.balanceScore)
            /\ (analysis.rating = "BUY") <=> buy
            /\ (analysis.rating = "SELL") <=> (~buy /\ low)
            /\ (analysis.rating = "HOLD") <=> (~buy /\ ~low)
            /\ (b >= 60 /\ h = 71) => analysis.rating = "HOLD"
            /\ (b >= 60 /\ h = 72) => analysis.rating = "BUY"

(* C4 witness: a result on the inclusive boundary, healthScore = 72 *)
C4_Witness ==
    /\ Returned
    /\ analysis.healthScore = Num(72)
    /\ analysis.balanceScore.n >= 60
    /\ analysis.rating = "BUY"

(* C5: conviction = clamp(35 + |healthScore - 50|, 10, 90): a function of  *)
(* healthScore alone, the same for 50+d and 50-d, non-decreasing in d.     *)
C5_ConvictionFormula ==
    Returned =>
        LET h    == analysis.healthScore.n
            dist == IF h >= 50 THEN h - 50 ELSE 50 - h
            raw  == 35 + dist
        IN  /\ IsInteger(analysis.healthScore)
            /\ analysis.conviction =
                   Num(IF raw < 10 THEN 10 ELSE IF raw > 90 THEN 90 ELSE raw)
            /\ convictionOf(Num(100 - h)) = analysis.conviction
            /\ \A d \in 0..dist : Le(convictionOf(Num(50 + d)), analysis.conviction)

(* C5 witness: a healthScore below neutral raised the conviction *)
C5_Witness ==
    /\ Returned
    /\ analysis.healthScore.n < 50
    /\ analysis.conviction.n = 35 + (50 - analysis.healthScore.n)
    /\ analysis.conviction.n > 35

(* C6: balanceScore and healthScore are the weighted sums of the five      *)
(* integer factor scores, rounded to the nearest integer with halves       *)
(* rounded up.                                                             *)
C6_CompositeRounding ==
    Returned =>
        LET v == analysis.valuationScore.n
            q == analysis.profitabilityScore.n
            g == analysis.growthScore.n
            m == analysis.toneScore.n
            r == scoreRisk(snapshot).n
        IN  /\ analysis.balanceScore =
                   Num(RoundHalfUp(25 * v + 25 * q + 25 * g + 15 * r + 10 * m, 100))
            /\ analysis.healthScore =
                   Num(RoundHalfUp(20 * v + 25 * q + 30 * g + 15 * m + 10 * r, 100))

(* C9: whatever mix of absent, finite, NaN and infinite fields the         *)
(* snapshot holds, the call returns; the rating is BUY, HOLD or SELL and   *)
(* the six scores and the conviction are integers, never absent or NaN.    *)
C9_NeverFails ==
    Returned =>
        /\ analysis.rating \in {"BUY", "HOLD", "SELL"}
        /\ \A f \in ScoreNames : IsInteger(analysis[f])
        /\ IsInteger(analysis.conviction)

(* C9 witness: a call returned for a snapshot holding NaN and an infinity *)
C9_Witness ==
    /\ Returned
    /\ \E f \in NumFields : IsNaN(snapshot[f])
    /\ \E f \in NumFields : IsInf(snapshot[f])
    /\ IsInteger(analysis.healthScore)

(* C10: a field holding NaN, +Infinity or -Infinity is treated as absent:  *)
(* the analysis equals the one computed with that field absent.            *)
C10_NonFiniteAsAbsent ==
    Returned =>
        \A f \in NumFields :
            (~IsAbsent(snapshot[f]) /\ ~IsFinite(snapshot[f])) =>
                analysis = computeQuantAnalysis([snapshot EXCEPT ![f] = Absent])

(* C24: every factor score and both composite scores lie in [10,95], never *)
(* at 0-9 or 96-100, and conviction lies in [35,80]: the clamp to [10,90]  *)
(* never changes 35 + |healthScore - 50|.                                  *)
C24_ScoresWithinTenAndNinetyFive ==
    Returned =>
        /\ \A f \in ScoreNames : IntegerIn(analysis[f], 10, 95)
        /\ IntegerIn(analysis.thesis[5], 10, 95)
        /\ IntegerIn(analysis.conviction, 35, 80)
        /\ analysis.conviction =
               Add(Num(35), MathAbs(Sub(analysis.healthScore, Num(50))))

(* C24 witness: a result with one factor at the ceiling 95 and another at  *)
(* the floor 10 *)
C24_Witness ==
    /\ Returned
    /\ \E f \in ScoreNames : analysis[f] = Num(95)
    /\ \E f \in ScoreNames : analysis[f] = Num(10)
    /\ analysis.conviction.n > 35

(* C25: the two composites never differ by more than 9; hence a healthScore *)
(* of 72 or more implies a balanceScore of 60 or more, and the rating is   *)
(* BUY if and only if healthScore >= 72.                                   *)
C25_CompositesClose ==
    Returned =>
        LET h == analysis.healthScore.n
            b == analysis.balanceScore.n
        IN  /\ IsInteger(analysis.healthScore) /\ IsInteger(analysis.balanceScore)
            /\ h - b <= 9 /\ b - h <= 9
            /\ h >= 72 => b >= 60
            /\ (analysis.rating = "BUY") <=> h >= 72

(* C25 witness: a BUY whose balanceScore lies below 72, at least 6 under    *)
(* the healthScore *)
C25_Witness ==
    /\ Returned
    /\ analysis.rating = "BUY"
    /\ analysis.healthScore.n >= 72
    /\ analysis.balanceScore.n < 72
    /\ analysis.healthScore.n - analysis.balanceScore.n >= 6

(* the mean of the finite entries of subs with halves rounded up, absent   *)
(* when there is none *)
RoundedMean(subs) ==
    LET vals  == SelectSeq(subs, IsFinite)
        total == SumSeq(vals)
    IN  IF Len(vals) = 0 THEN Absent
        ELSE Num(RoundHalfUp(total.n, total.d * Len(vals)))

OrNeutral(x) == IF IsAbsent(x) THEN Num(50) ELSE x

FundamentalGrowth(s) ==
    RoundedMean(<<scoreFromBandOrNull(s.revenueGrowth, Num(0), R(35, 100)),
                  scoreFromBandOrNull(s.epsGrowth, Num(0), R(45, 100))>>)

PriceGrowth(s) ==
    IF ~IsAbsent(s.fiftyTwoWeekChangePct)
    THEN scoreFromBandOrNull(s.fiftyTwoWeekChangePct, Num(-40), Num(150))
    ELSE IF /\ ~IsAbsent(s.price) /\ ~IsAbsent(s.fiftyTwoWeekLow)
            /\ ~IsAbsent(s.fiftyTwoWeekHigh)
            /\ Gt(s.fiftyTwoWeekHigh, s.fiftyTwoWeekLow)
    THEN scoreFromBandOrNull(Div(Sub(s.price, s.fiftyTwoWeekLow),
                                 Sub(s.fiftyTwoWeekHigh, s.fiftyTwoWeekLow)),
                             Num(0), Num(1))
    ELSE Absent

GrowthGiven(s, P) == OrNeutral(RoundedMean(<<FundamentalGrowth(s), P>>))

(* C18: when fiftyTwoWeekChangePct is present it alone is banded over      *)
(* [-40,150] and price and the 52-week range are ignored; when it is       *)
(* absent and price, low and high are all present with high > low, the     *)
(* position (price-low)/(high-low) is banded over [0,1]; in every other    *)
(* case, high <= low included, price-based growth is absent and no         *)
(* division by zero takes place.                                           *)
C18_PriceGrowthPrecedence ==
    Returned =>
        LET s       == snapshot
            g       == analysis.growthScore
            ranged  == /\ ~IsAbsent(s.price) /\ ~IsAbsent(s.fiftyTwoWeekLow)
                       /\ ~IsAbsent(s.fiftyTwoWeekHigh)
                       /\ Gt(s.fiftyTwoWeekHigh, s.fiftyTwoWeekLow)
            noRange == [s EXCEPT !.price = Absent, !.fiftyTwoWeekLow = Absent,
                                 !.fiftyTwoWeekHigh = Absent]
        IN  /\ ~IsAbsent(s.fiftyTwoWeekChangePct) =>
                   /\ g = GrowthGiven(s, scoreFromBandOrNull(s.fiftyTwoWeekChangePct,
                                                             Num(-40), Num(150)))
                   /\ g = computeQuantAnalysis(noRange).growthScore
            /\ (IsAbsent(s.fiftyTwoWeekChangePct) /\ ranged) =>
                   g = GrowthGiven(s, scoreFromBandOrNull(
                           Div(Sub(s.price, s.fiftyTwoWeekLow),
                               Sub(s.fiftyTwoWeekHigh, s.fiftyTwoWeekLow)),
                           Num(0), Num(1)))
            /\ (IsAbsent(s.fiftyTwoWeekChangePct) /\ ~ranged) =>
                   /\ g = GrowthGiven(s, Absent)
                   /\ g = computeQuantAnalysis(noRange).growthScore

(* C18 witness: no 52-week change, price above a 52-week range of width 0: *)
(* the position is not computed and the growth score stays neutral *)
C18_Witness ==
    /\ Returned
    /\ IsAbsent(snapshot.fiftyTwoWeekChangePct)
    /\ IsFinite(snapshot.price) /\ IsFinite(snapshot.fiftyTwoWeekLow)
    /\ snapshot.fiftyTwoWeekHigh = snapshot.fiftyTwoWeekLow
    /\ Gt(snapshot.price, snapshot.fiftyTwoWeekLow)
    /\ IsAbsent(snapshot.revenueGrowth) /\ IsAbsent(snapshot.epsGrowth)
    /\ analysis.growthScore = Num(50)

(* C19 as stated: for the fully populated example snapshot (price 100,     *)
(* range 80 to 120, P/E 12, margin and ROE 0.20, revenue growth 0.15, EPS  *)
(* growth 0.20, beta 1, market cap 5e10) the growth score is 70, the       *)
(* average of a fundamental score of about 87 and a position score of      *)
(* about 53.                                                               *)
C19_ExampleGrowthSeventy ==
    (Returned /\ snapshot = ExampleSnapshot) =>
        /\ analysis.growthScore = Num(70)
        /\ Le(Num(86), FundamentalGrowth(snapshot)) /\ Le(FundamentalGrowth(snapshot), Num(88))
        /\ Le(Num(52), PriceGrowth(snapshot)) /\ Le(PriceGrowth(snapshot), Num(54))

(* C19 amended: for the example snapshot the growth score is 50: the       *)
(* fundamental score is 47 (bands 46.43 and 47.78), the position score is  *)
(* 52.5, and their mean 49.75 rounds to 50.                                *)
C19_ExampleGrowthFifty ==
    (Returned /\ snapshot = ExampleSnapshot) =>
        /\ analysis.growthScore = Num(50)
        /\ scoreFromBandOrNull(snapshot.revenueGrowth, Num(0), R(35, 100)) = R(325, 7)
        /\ scoreFromBandOrNull(snapshot.epsGrowth, Num(0), R(45, 100)) = R(430, 9)
        /\ FundamentalGrowth(snapshot) = Num(47)
        /\ PriceGrowth(snapshot) = R(105, 2)

(* C19 witness: the example snapshot has been scored *)
C19_Witness ==
    /\ Returned
    /\ snapshot = ExampleSnapshot
    /\ analysis.growthScore = Num(50)
    /\ analysis.valuationScore = Num(85)

(* distances from the 52-week high, in percent, in increasing order *)
Magnitudes == <<0, 10, 30, 60, 70>>

(* C20: momentum is the rounded mean of the present bands of change1dPct   *)
(* over [-5,5], fiftyTwoWeekChangePct over [-40,150] and                   *)
(* -|changeFrom52wHighPct| over [-60,0].  The other inputs fixed, it       *)
(* depends only on the magnitude of changeFrom52wHighPct, is               *)
(* non-increasing in that magnitude, and the distance sub-score is 95 at   *)
(* distance 0 and 10 at any magnitude >= 60.                               *)
C20_Momentum ==
    Returned =>
        LET s    == snapshot
            day  == scoreFromBandOrNull(s.change1dPct, Num(-5), Num(5))
            year == scoreFromBandOrNull(s.fiftyTwoWeekChangePct, Num(-40), Num(150))
            dist(x) == IF IsAbsent(x) THEN Absent
                       ELSE scoreFromBandOrNull(
                                IF IsFinite(x) /\ x.n > 0 THEN Neg(x) ELSE x,
                                Num(-60), Num(0))
            at(x)    == scoreMomentum([s EXCEPT !.changeFrom52wHighPct = x])
            alone(x) == scoreMomentum([AllAbsent EXCEPT !.changeFrom52wHighPct = x])
        IN  /\ analysis.toneScore = scoreMomentum(s)
            /\ IsFinite(s.changeFrom52wHighPct) =>
                   analysis.toneScore =
                       OrNeutral(RoundedMean(<<day, year, dist(s.changeFrom52wHighPct)>>))
            /\ \A i \in 1..Len(Magnitudes) :
                   /\ at(Num(Magnitudes[i])) = at(Num(-Magnitudes[i]))
                   /\ i > 1 => Le(at(Num(Magnitudes[i])), at(Num(Magnitudes[i - 1])))
                   /\ Magnitudes[i] >= 60 =>
                          /\ alone(Num(Magnitudes[i])) = Num(10)
                          /\ alone(Num(-Magnitudes[i])) = Num(10)
            /\ alone(Num(0)) = Num(95)
            /\ IsFinite(s.changeFrom52wHighPct) =>
                   analysis.toneScore = at(Neg(s.changeFrom52wHighPct))

(* C20 witness: the price 10% from the high, entered with a positive sign, *)
(* next to a one-day change: momentum is below the top and equal to that   *)
(* of -10 *)
C20_Witness ==
    /\ Returned
    /\ snapshot.changeFrom52wHighPct = Num(10)
    /\ IsFinite(snapshot.change1dPct)
    /\ analysis.toneScore =
           scoreMomentum([snapshot EXCEPT !.changeFrom52wHighPct = Num(-10)])
    /\ analysis.toneScore.n < 95

(* the risk score of the result, which the thesis quotes *)
RiskOf(a) == a.thesis[5]

(* C21: with marketCap absent, zero or negative the risk score is the      *)
(* rounded beta band over [0.8,1.8] alone, 50 if beta is absent too; with  *)
(* a positive marketCap the size sub-score is 10 up to 10^9 and 95 from    *)
(* 10^12, and the risk score is the rounded mean of the present terms.     *)
C21_RiskScore ==
    Returned =>
        LET cap  == snapshot.marketCap
            b    == scoreFromBandOrNull(snapshot.beta, R(8, 10), R(18, 10))
            size == scoreFromBandOrNull(MathLog10Cap(cap), Num(9), Num(12))
            risk == RiskOf(analysis)
        IN  /\ (IsAbsent(cap) \/ (IsFinite(cap) /\ cap.n <= 0)) =>
                   /\ risk = OrNeutral(RoundedMean(<<b>>))
                   /\ IsAbsent(snapshot.beta) => risk = Num(50)
            /\ (IsFinite(cap) /\ cap.n > 0) =>
                   /\ cap.n <= 1000 * cap.d => size = Num(10)
                   /\ cap.n >= 1000000 * cap.d => size = Num(95)
                   /\ Le(Num(10), size) /\ Le(size, Num(95))
                   /\ risk = OrNeutral(RoundedMean(<<b, size>>))

(* C21 witness: a market cap of zero next to a beta inside its band: the   *)
(* risk score is the beta band alone *)
C21_Witness ==
    /\ Returned
    /\ snapshot.marketCap = Num(0)
    /\ snapshot.beta = R(13, 10)
    /\ RiskOf(analysis) = Num(53)

(* C23: the 'all scores 50' test identifies exactly the snapshots with     *)
(* insufficient data: the analysis of a snapshot passes it if and only if  *)
(* no scoring input is present, so a snapshot with a scoring input present *)
(* (beta, marketCap, ...) is never discarded or replaced by the fallback.  *)
C23_AllFiftyOnlyWithoutData ==
    Returned => (allFifty(analysis) <=> AllAbsentInput)

----------------------------------------------------------------------------
(* properties of successive calls (specification SpecSeq) *)

----------------------------------------------------------------------------
(* properties of the outputs and of the factor scores (specification       *)
(* SpecFactor) *)

(* C12: keyRisks has one or two entries in a fixed order: the              *)
(* profitability caveat, first, exactly when profitMargin or roe is        *)
(* absent; the growth-data caveat, after it, exactly when revenueGrowth or *)
(* epsGrowth is absent; the generic trailing-data caveat exactly when all  *)
(* four fields are present, and then it is the only entry.                 *)
C12_KeyRisks ==
    Returned =>
        LET k      == analysis.keyRisks
            has(c) == \E i \in 1..Len(k) : k[i] = c
            noProf == IsAbsent(snapshot.profitMargin) \/ IsAbsent(snapshot.roe)
            noGrow == IsAbsent(snapshot.revenueGrowth) \/ IsAbsent(snapshot.epsGrowth)
        IN  /\ Len(k) \in {1, 2}
            /\ \A i \in 1..Len(k) : k[i] \in {CaveatProfitability, CaveatGrowth, CaveatTrailing}
            /\ has(CaveatProfitability) <=> noProf
            /\ has(CaveatGrowth) <=> noGrow
            /\ has(CaveatTrailing) <=> (~noProf /\ ~noGrow)
            /\ noProf => k[1] = CaveatProfitability
            /\ noGrow => k[Len(k)] = CaveatGrowth
            /\ (noProf /\ noGrow) => Len(k) = 2
            /\ has(CaveatTrailing) => k = <<CaveatTrailing>>

(* C12 witness: all four fundamentals present, the generic caveat returned *)
C12_Witness ==
    /\ Returned
    /\ \A f \in FundFields : IsFinite(snapshot[f])
    /\ analysis.keyRisks = <<CaveatTrailing>>

(* the fields of a MarketAnalysis that may depend on the risk score *)
RiskDependent == {"balanceScore", "healthScore", "rating", "conviction", "thesis"}

(* C13: toneScore is the momentum score, valuationScore the value score    *)
(* and profitabilityScore the quality score; the risk score is not an      *)
(* output field; two snapshots that differ only in beta and marketCap have *)
(* the same toneScore, growthScore, profitabilityScore and valuationScore  *)
(* and differ at most in balanceScore, healthScore, rating, conviction and *)
(* the thesis.                                                             *)
C13_Aliases ==
    Returned =>
        /\ analysis.toneScore = scoreMomentum(snapshot)
        /\ analysis.valuationScore = scoreValue(snapshot)
        /\ analysis.profitabilityScore = scoreQuality(snapshot)
        /\ DOMAIN analysis = ScoreNames \cup
               {"rating", "conviction", "summary", "keyRisks", "thesis"}
        /\ \A alt \in RiskAlternatives :
               LET other == computeQuantAnalysis(
                                [snapshot EXCEPT !.beta = alt[1], !.marketCap = alt[2]])
               IN  \A f \in (DOMAIN analysis) \ RiskDependent : other[f] = analysis[f]

(* C13 witness: a result with a momentum score away from neutral whose     *)
(* healthScore changes when beta and marketCap are taken away, the four    *)
(* factor scores staying as they are *)
C13_Witness ==
    /\ Returned
    /\ IsFinite(snapshot.beta)
    /\ analysis.toneScore # Num(50)
    /\ LET other == computeQuantAnalysis(
                        [snapshot EXCEPT !.beta = Absent, !.marketCap = Absent])
       IN  /\ other.healthScore # analysis.healthScore
           /\ other.toneScore = analysis.toneScore
           /\ other.growthScore = analysis.growthScore

----------------------------------------------------------------------------
(* properties of fetchYahooQuote (specification SpecFetch) *)

Fetched == pc = "fetched"

(* the provider keys that feed a fundamental of the snapshot *)
YahooKeyOf(f) ==
    CASE f = "profitMargin"  -> "profitMargins"
      [] f = "roe"           -> "returnOnEquity"
      [] f = "revenueGrowth" -> "revenueGrowth"
      [] f = "epsGrowth"     -> "earningsGrowth"

FmpKeyOf(f) ==
    CASE f = "profitMargin"  -> "netProfitMarginTTM"
      [] f = "roe"           -> "roeTTM"
      [] f = "revenueGrowth" -> "revenueGrowthTTM"
      [] f = "epsGrowth"     -> "epsGrowthTTM"

(* the answer holds a number for the key: a finite number, { raw: number } *)
(* at Yahoo, a numeric string at FMP *)
YahooSupplies(f) ==
    LET j == feed.fd[YahooKeyOf(f)]
    IN  feed.fd.ok /\ j.t \in {"number", "object"} /\ IsFinite(j.v)

FmpSupplies(f) ==
    LET j == feed.row[FmpKeyOf(f)]
    IN  feed.row.ok /\ \/ j.t = "number" /\ IsFinite(j.v)
                       \/ j.t = "string" /\ j.s # "" /\ IsFinite(NumberOf(j))

(* C14: in the snapshot fetchYahooQuote returns, each of profitMargin,     *)
(* roe, revenueGrowth and epsGrowth is null whenever neither Yahoo         *)
(* financial-data nor the FMP row supplied a numeric value for it, a       *)
(* missing, null or empty-string FMP field included; it is never 0.        *)
C14_AbsentNeverZero ==
    Fetched =>
        \A f \in FundFields :
            (~YahooSupplies(f) /\ ~FmpSupplies(f)) => IsAbsent(snapshot[f])

(* C30: FMP enrichment only fills gaps: each of profitMargin, roe,         *)
(* revenueGrowth and epsGrowth keeps the base snapshot's value whenever    *)
(* that value is non-null, every other field equals the base snapshot's,   *)
(* and on any failure of the FMP request the base snapshot is returned     *)
(* unchanged.                                                              *)
C30_FmpOnlyFillsGaps ==
    [][pc = "filled" =>
          /\ DOMAIN snapshot' = DOMAIN snapshot
          /\ \A f \in FundFields :
                 ~IsAbsent(snapshot[f]) => snapshot'[f] = snapshot[f]
          /\ \A f \in DOMAIN snapshot \ FundFields : snapshot'[f] = snapshot[f]
          /\ ~feed.row.ok => snapshot' = snapshot]_vars

(* C30 witness: Yahoo supplied the margin 0.25 alone and FMP answered 0.15  *)
(* under all four keys: the margin is Yahoo's, the other three are FMP's    *)
C30_Witness ==
    /\ Fetched
    /\ feed.row.ok
    /\ feed.row.netProfitMarginTTM = JNum(R(15, 100))
    /\ snapshot.profitMargin = R(25, 100)
    /\ snapshot.roe = R(15, 100)
    /\ snapshot.revenueGrowth = R(15, 100)
    /\ snapshot.epsGrowth = R(15, 100)
    /\ snapshot.price = Num(100)

----------------------------------------------------------------------------
(* properties of the helpers (specification SpecFn) *)

BandCall == Returned /\ args.fn = "scoreFromBand" /\ Lt(args.min, args.max)

(* what C7 says of one value v and the two variants' results for it *)
BandLaw(v, r, rOrNull) ==
    (~IsAbsent(v) /\ ~IsNaN(v)) =>
        /\ rOrNull = r
        /\ Le(v, args.min) => r = Num(10)
        /\ Ge(v, args.max) => r = Num(95)
        /\ (Lt(args.min, v) /\ Lt(v, args.max)) =>
               r = Add(Num(10), Mul(Div(Sub(v, args.min), Sub(args.max, args.min)), Num(85)))
        /\ Le(Num(10), r) /\ Le(r, Num(95))

(* C7: for min < max the band mapper returns 10 for a present value <= min,*)
(* 95 for one >= max, 10 + ((value-min)/(max-min))*85 strictly inside, is  *)
(* non-decreasing in value and stays within [10,95].                       *)
C7_BandMapper ==
    BandCall =>
        /\ BandLaw(args.x, result.x, result.xOrNull)
        /\ BandLaw(args.y, result.y, result.yOrNull)
        /\ (~IsAbsent(args.x) /\ ~IsAbsent(args.y) /\ Le(args.x, args.y)) =>
               Le(result.x, result.y)

(* C7 witness: one value strictly inside the band, the other above it *)
C7_Witness ==
    /\ BandCall
    /\ Lt(args.min, args.x) /\ Lt(args.x, args.max)
    /\ IsFinite(args.y) /\ Gt(args.y, args.max)
    /\ Lt(Num(10), result.x) /\ Lt(result.x, result.y)
    /\ result.y = Num(95)

PeCall == Returned /\ args.fn = "scoreFromPe"

(* what C8 says of one P/E v and the curve's result for it *)
PeLaw(v, r) ==
    /\ IsAbsent(v) => IsAbsent(r)
    /\ (IsFinite(v) /\ Le(v, Num(0))) => r = Num(20)
    /\ v = Num(5) => r = Num(95)
    /\ v = Num(15) => r = Num(80)
    /\ v = Num(30) => r = Num(55)
    /\ v = Num(60) => r = Num(40)
    /\ (IsFinite(v) /\ Gt(v, Num(60))) => r = Num(35)

(* C8: the P/E curve returns absent for an absent P/E, 20 for pe <= 0, 95  *)
(* at 5, 80 at 15, 55 at 30, 40 at 60, 35 above 60, and is non-increasing  *)
(* for pe >= 5, the breakpoints included.                                  *)
C8_PeCurve ==
    PeCall =>
        /\ PeLaw(args.x, result.x)
        /\ PeLaw(args.y, result.y)
        /\ (IsFinite(args.x) /\ IsFinite(args.y) /\ Ge(args.x, Num(5)) /\ Le(args.x, args.y)) =>
               Le(result.y, result.x)

(* C8 witness: a pair of P/E values on either side of the breakpoint 30 *)
C8_Witness ==
    /\ PeCall
    /\ args.x = Num(30) /\ Gt(args.y, Num(30)) /\ Lt(args.y, Num(31))
    /\ result.x = Num(55) /\ Le(result.y, result.x)

(* C15: a present P/E strictly between 0 and 5 scores 95, the value at     *)
(* pe = 5, so that the curve is non-increasing over all pe > 0.            *)
C15_CheapPeKeepsTop ==
    PeCall =>
        /\ (IsFinite(args.x) /\ Gt(args.x, Num(0)) /\ Lt(args.x, Num(5))) =>
               result.x = Num(95)
        /\ (IsFinite(args.y) /\ Gt(args.y, Num(0)) /\ Lt(args.y, Num(5))) =>
               result.y = Num(95)
        /\ (IsFinite(args.x) /\ IsFinite(args.y) /\ Gt(args.x, Num(0)) /\ Le(args.x, args.y)) =>
               Le(result.y, result.x)

AvgCall == Returned /\ args.fn = "avgScores"

(* C22: avgScores equals avgScoresOrNull when at least one entry is        *)
(* present and is 50 where avgScoresOrNull is absent; scoreFromBand equals *)
(* scoreFromBandOrNull when the value is present and is 50 where           *)
(* scoreFromBandOrNull is absent, for every value, min and max.            *)
C22_VariantsAgree ==
    /\ AvgCall =>
           /\ (\E i \in 1..Len(args.scores) : IsScore(args.scores[i])) =>
                  /\ ~IsAbsent(result.xOrNull)
                  /\ result.x = result.xOrNull
           /\ IsAbsent(result.xOrNull) => result.x = Num(50)
           /\ ~IsAbsent(result.xOrNull) => result.x = result.xOrNull
    /\ (Returned /\ args.fn = "scoreFromBand") =>
           /\ ~IsAbsent(args.x) => (~IsAbsent(result.xOrNull) /\ result.x = result.xOrNull)
           /\ ~IsAbsent(args.y) => (~IsAbsent(result.yOrNull) /\ result.y = result.yOrNull)
           /\ IsAbsent(result.xOrNull) => (IsAbsent(args.x) /\ result.x = Num(50))
           /\ IsAbsent(result.yOrNull) => (IsAbsent(args.y) /\ result.y = Num(50))

(* C22 witness: a list holding an absent entry and two scores, whose mean  *)
(* 52.5 both variants round to 53 *)
C22_Witness ==
    /\ AvgCall
    /\ args.scores = <<Absent, Num(10), Num(95)>>
    /\ result.x = Num(53)
    /\ result.xOrNull = Num(53)

----------------------------------------------------------------------------
(* properties of POST /api/analyze-stock (specification SpecAnalyzeStock) *)

Responded == pc = "done"

(* the effect of the given kind the handler made, if it made one *)
Did(op, ok) == \E i \in 1..Len(effects) : effects[i].op = op /\ effects[i].ok = ok

NeutralScores(r) ==
    /\ \A f \in ScoreNames : r[f] = Num(50)
    /\ r.rating = "HOLD"

(* C26: when the provider returns no snapshot for a non-empty ticker the   *)
(* handler scores an all-absent placeholder and substitutes                *)
(* FALLBACK_ANALYSIS: the response is 200, the returned analysis and the   *)
(* upserted Stock row carry all six scores 50 and rating HOLD, the         *)
(* conviction is 40 and not the engine's 35, and scores stored earlier for *)
(* the ticker are overwritten.                                             *)
C26_FallbackWhenNoSnapshot ==
    Did("fetchYahooQuote", FALSE) =>
        /\ snapshot = PlaceholderSnapshot(locals.ticker)
        /\ pc \in {"upsert", "log", "done"} =>
               /\ analysis.conviction = Num(35)
               /\ locals.final = FALLBACK_ANALYSIS
        /\ Did("stock.upsert", TRUE) =>
               /\ HasStock(stocks, locals.ticker)
               /\ NeutralScores(StockOf(stocks, locals.ticker))
               /\ Cardinality({r \in stocks : r.ticker = locals.ticker}) = 1
        /\ (Responded /\ Did("stock.upsert", TRUE)) =>
               /\ response.status = 200
               /\ NeutralScores(response.analysis)
               /\ response.analysis.conviction = Num(40)
               /\ response.stock = StockOf(stocks, locals.ticker)

(* C26 witness: the provider had nothing for ACME, whose stored row 7 held  *)
(* the scores 74 and BUY and now holds 50 and HOLD *)
C26_Witness ==
    /\ Responded
    /\ Did("fetchYahooQuote", FALSE)
    /\ response.status = 200
    /\ response.analysis.conviction = Num(40)
    /\ \E r \in stocks : r.id = 7 /\ r.ticker = "ACME" /\ NeutralScores(r)

StepOrder == <<"fetchYahooQuote", "stock.upsert", "toneAnalysis.create">>

(* C27: the steps are ordered validate, fetch, score, upsert Stock, create *)
(* ToneAnalysis.  An empty or whitespace-only ticker yields 400 with no    *)
(* fetch and no database write; a ToneAnalysis row is created only after   *)
(* the Stock upsert of the same request succeeded and refers to that row's *)
(* id; a failure creating it leaves the upserted row in place and the      *)
(* response is still 200; a failed upsert yields 500 and no ToneAnalysis   *)
(* row.                                                                    *)
C27_StepOrder ==
    /\ Len(effects) <= 3
    /\ \A i \in 1..Len(effects) :
           /\ effects[i].op = StepOrder[i]
           /\ i > 1 => (effects[i - 1].ok \/ effects[i - 1].op = "fetchYahooQuote")
    /\ analysis # NoAnalysis => Len(effects) >= 1
    /\ Len(effects) >= 2 => analysis # NoAnalysis
    /\ (request.ticker # NullBody /\ tickerOf(request.ticker) = "") =>
           /\ pc \in {"validate", "done"}
           /\ Responded => response.status = 400
           /\ effects = <<>>
           /\ stocks \in StoredStocks
           /\ toneAnalyses = <<>>
    /\ toneAnalyses # <<>> =>
           /\ Len(toneAnalyses) = 1
           /\ Did("stock.upsert", TRUE)
           /\ Did("toneAnalysis.create", TRUE)
           /\ HasStock(stocks, locals.ticker)
           /\ toneAnalyses[1].stockId = StockOf(stocks, locals.ticker).id
    /\ Did("toneAnalysis.create", FALSE) =>
           /\ toneAnalyses = <<>>
           /\ locals.stock \in stocks
           /\ locals.stock.ticker = locals.ticker
           /\ Responded /\ response.status = 200
    /\ Did("stock.upsert", FALSE) =>
           /\ Responded /\ response.status = 500
           /\ stocks \in StoredStocks
           /\ toneAnalyses = <<>>

(* C27 witness: the history row could not be created, the Stock row is new *)
(* and the response is 200 *)
C27_Witness ==
    /\ Responded
    /\ Did("toneAnalysis.create", FALSE)
    /\ response.status = 200
    /\ locals.stock \in stocks
    /\ locals.stock \notin UNION StoredStocks
    /\ toneAnalyses = <<>>

----------------------------------------------------------------------------
(* properties of POST /api/refresh-stocks (specification SpecRefresh) *)

IsFetch(e) == e.op = "fetchYahooQuote"

(* the row of the given id is as it was when the request arrived *)
Untouched(id) == \E r \in stocks : r.id = id /\ r \in UNION RefreshTables

----------------------------------------------------------------------------
(* properties of GET /api/recommend-stocks (specification SpecRecommend) *)

Stored(t) == HasStock(stocks, t)

(* the ticker answers with the fully populated snapshot and its row can be *)
(* written *)
Answers(t) == feed[t].fetched = Answering(t, TRUE).fetched /\ feed[t].writable

(* the tickers that answer are those whose fetch succeeds with an analysis *)
(* that is not all 50 and whose row can be written *)
AnswersIffSucceeds ==
    (pc = "idle" /\ response = NoResponse) =>
        \A t \in CuratedSet :
            Answers(t) <=> /\ feed[t].fetched # NoSnapshot
                           /\ feed[t].writable
                           /\ ~allFifty(computeQuantAnalysis(feed[t].fetched))

(* a candidate not yet stored whose analysis would succeed *)
WouldSucceed(t) ==
    /\ t \notin excludeSetOf(request.exclude)
    /\ ~Stored(t)
    /\ Answers(t)

(* a request analyses at most MAX_NEW_ANALYSES tickers, none of them       *)
(* stored or excluded, in the order of the curated list *)
AtMostEightInOrder ==
    pc = "analyze" =>
        /\ Len(locals.toAnalyze) <= MAX_NEW_ANALYSES
        /\ \A i \in 1..Len(locals.toAnalyze) :
               /\ locals.toAnalyze[i] \in CuratedSet \ excludeSetOf(request.exclude)
               /\ i > locals.analysed => ~Stored(locals.toAnalyze[i])
               /\ i > 1 => PositionOf(locals.toAnalyze[i - 1]) < PositionOf(locals.toAnalyze[i])
        /\ Len(SelectSeq(effects, IsFetch)) = locals.analysed

(* C28: a request analyses at most 8 not-yet-stored candidates, in curated *)
(* order, and under repeated requests with the same exclude list every     *)
(* not-yet-stored candidate whose fetch would succeed with a non-all-50    *)
(* analysis is eventually analysed and stored: none is starved by          *)
(* candidates whose analysis keeps failing or keeps returning all 50.      *)
C28_NoStarvation ==
    /\ []AtMostEightInOrder
    /\ <>[](\A t \in CuratedSet : ~WouldSucceed(t))

=============================================================================
